---- MODULE Spec2Model ----
(***************************************************************************)
(* Model of the configuration resolution and remote command-execution core *)
(* of wordpress-mcp (src/src/lib/ssh.ts).                                  *)
(*                                                                         *)
(* Text is modelled as a sequence of one-character strings, so that        *)
(* emptiness, concatenation and substring replacement are computed, not    *)
(* assumed.  A parsed JSON value carries its JSON type in a tag.           *)
(***************************************************************************)
EXTENDS Integers, Sequences, FiniteSets, TLC

VARIABLES
    disk,          \* the configuration files the process can be pointed at
    cachedConfig,  \* ssh.ts:18, the active document or Null
    phpAvailable,  \* ssh.ts:402, the cached answer of the local php probe
    call,          \* the last core call made and, if synchronous, how it ended
    ssh,           \* the executeSshCommand invocations made so far, in order
    php,           \* the executePhpCode call of the run
    proc           \* index.ts:465, where main is and how the process has ended

vars == <<disk, cachedConfig, phpAvailable, call, ssh, php, proc>>

-----------------------------------------------------------------------------
(* JavaScript values *)

Null == [t |-> "null"]

\* A property read obj[key] on a plain object finds the object's own keys
\* first, then the keys every plain object inherits from Object.prototype
\* (whose values are functions, hence truthy, with no own data properties).
InheritedKeys == {<<"c", "o", "n", "s", "t", "r", "u", "c", "t", "o", "r">>}

Lookup(obj, key) ==
    IF key \in DOMAIN obj THEN "own"
    ELSE IF key \in InheritedKeys THEN "inherited"
    ELSE "undefined"

\* JavaScript truthiness of an optional string property.
TruthyStr(obj, k) == k \in DOMAIN obj /\ obj[k] # <<>>

\* Object.assign(result, config): the own keys of config overwrite result.
ObjectAssign(result, config) ==
    [k \in DOMAIN result \cup DOMAIN config |->
        IF k \in DOMAIN config THEN config[k] ELSE result[k]]

EmptyObject == [k \in {} |-> 0]

\* String(v) of an optional string property, as template literals and
\* String.prototype.replace render it.
UndefinedText == <<"u", "n", "d", "e", "f", "i", "n", "e", "d">>

-----------------------------------------------------------------------------
(* JSON documents as JSON.parse returns them *)

JNum(n) == [t |-> "num", v |-> n]
JStr(s) == [t |-> "str", v |-> s]
JObj(f) == [t |-> "obj", v |-> f]

\* Own-key order of a JavaScript object (what Object.keys lists): the keys
\* that are canonical array indices first, in ascending numeric order, then
\* the other keys in the order in which the JSON text gives them.
Digits == <<"0", "1", "2", "3", "4", "5", "6", "7", "8", "9">>
IsDigit(c) == \E i \in 1..10 : Digits[i] = c
DigitVal(c) == (CHOOSE i \in 1..10 : Digits[i] = c) - 1

\* a < b for two digit strings without leading zeros, read as numbers.
RECURSIVE DigitsLess(_, _)
DigitsLess(a, b) ==
    IF Len(a) # Len(b) THEN Len(a) < Len(b)
    ELSE IF a = <<>> THEN FALSE
    ELSE IF Head(a) # Head(b) THEN DigitVal(Head(a)) < DigitVal(Head(b))
    ELSE DigitsLess(Tail(a), Tail(b))

\* 2^32 - 1: array indices are the integers below it.
ArrayIndexLimit == <<"4", "2", "9", "4", "9", "6", "7", "2", "9", "5">>

IsArrayIndex(k) ==
    /\ k # <<>>
    /\ \A i \in 1..Len(k) : IsDigit(k[i])
    /\ Len(k) > 1 => k[1] # "0"
    /\ DigitsLess(k, ArrayIndexLimit)

OwnKeyOrder(keys) ==
    SortSeq(SelectSeq(keys, IsArrayIndex), DigitsLess)
        \o SelectSeq(keys, LAMBDA k : ~IsArrayIndex(k))

\* The servers object of a document, with the order of its keys in the file.
JServers(keys, f) == [t |-> "obj", v |-> f, keys |-> keys]

SshKeys == {"port", "username", "privateKeyPath", "passphrase", "wpRootPath"}
SshStringKeys == SshKeys \ {"port"}

\* z.object({port: z.number().int().positive().optional(), ...}).strict()
SshConfigSchema(j) ==
    /\ j.t = "obj"
    /\ DOMAIN j.v \subseteq SshKeys
    /\ "port" \in DOMAIN j.v => (j.v["port"].t = "num" /\ j.v["port"].v > 0)
    /\ \A k \in DOMAIN j.v \cap SshStringKeys : j.v[k].t = "str"

\* z.object({ssh: SshConfigSchema.optional()}).strict()
HostingProviderSchema(j) ==
    /\ j.t = "obj"
    /\ DOMAIN j.v \subseteq {"ssh"}
    /\ "ssh" \in DOMAIN j.v => SshConfigSchema(j.v["ssh"])

\* z.object({name, host, hostingProvider?, ssh?}).strict()
ServerConfigSchema(j) ==
    /\ j.t = "obj"
    /\ DOMAIN j.v \subseteq {"name", "host", "hostingProvider", "ssh"}
    /\ {"name", "host"} \subseteq DOMAIN j.v
    /\ \A k \in DOMAIN j.v \cap {"name", "host", "hostingProvider"} : j.v[k].t = "str"
    /\ "ssh" \in DOMAIN j.v => SshConfigSchema(j.v["ssh"])

\* z.object({ssh?, hostingProviders?: record, servers: record}).strict()
ServersConfigSchema(j) ==
    /\ j.t = "obj"
    /\ DOMAIN j.v \subseteq {"ssh", "hostingProviders", "servers"}
    /\ "servers" \in DOMAIN j.v
    /\ "ssh" \in DOMAIN j.v => SshConfigSchema(j.v["ssh"])
    /\ "hostingProviders" \in DOMAIN j.v =>
          /\ j.v["hostingProviders"].t = "obj"
          /\ \A p \in DOMAIN j.v["hostingProviders"].v :
                HostingProviderSchema(j.v["hostingProviders"].v[p])
    /\ j.v["servers"].t = "obj"
    /\ \A s \in DOMAIN j.v["servers"].v : ServerConfigSchema(j.v["servers"].v[s])

\* validationResult.data: the validated document as plain values.
SshData(j) == [k \in DOMAIN j.v |-> j.v[k].v]

ProviderData(j) ==
    [k \in DOMAIN j.v |-> SshData(j.v[k])]

ServerData(j) ==
    [k \in DOMAIN j.v |-> IF k = "ssh" THEN SshData(j.v[k]) ELSE j.v[k].v]

\* The entry "serverKeys" is not a property of the document: it carries the
\* own-key order of the servers object, which a TLA+ function does not have.
ServersConfigData(j) ==
    [k \in DOMAIN j.v \cup {"serverKeys"} |->
        CASE k = "ssh" -> SshData(j.v[k])
          [] k = "hostingProviders" ->
                [p \in DOMAIN j.v[k].v |-> ProviderData(j.v[k].v[p])]
          [] k = "servers" ->
                [s \in DOMAIN j.v[k].v |-> ServerData(j.v[k].v[s])]
          [] k = "serverKeys" -> OwnKeyOrder(j.v["servers"].keys)]

-----------------------------------------------------------------------------
(* Text *)

RECURSIVE StartsWith(_, _)
StartsWith(s, pat) ==
    IF pat = <<>> THEN TRUE
    ELSE IF s = <<>> THEN FALSE
    ELSE Head(s) = Head(pat) /\ StartsWith(Tail(s), Tail(pat))

\* s.replace(/pat/g, rep) for a literal, non-empty pattern and a replacement
\* text without "$": a left-to-right scan over s; the replacement text is not
\* scanned again by the same call.
RECURSIVE ReplaceAll(_, _, _)
ReplaceAll(s, pat, rep) ==
    IF s = <<>> THEN <<>>
    ELSE IF StartsWith(s, pat)
         THEN rep \o ReplaceAll(SubSeq(s, Len(pat) + 1, Len(s)), pat, rep)
         ELSE <<Head(s)>> \o ReplaceAll(Tail(s), pat, rep)

UsernameToken == <<"{", "u", "s", "e", "r", "n", "a", "m", "e", "}">>
HostToken == <<"{", "h", "o", "s", "t", "}">>
HomePrefix == <<"/", "h", "o", "m", "e", "/">>
PublicHtmlSuffix == <<"/", "p", "u", "b", "l", "i", "c", "_", "h", "t", "m", "l">>

-----------------------------------------------------------------------------
(* ConfigResolver *)

Some(v) == [def |-> TRUE, v |-> v]
None == [def |-> FALSE, v |-> EmptyObject]

\* obj.k for an optional object-valued property k.
OptProp(obj, k) == IF k \in DOMAIN obj THEN Some(obj[k]) ELSE None

\* ssh.ts:99 resolveTemplateVars
resolveTemplateVars(template, username, host) ==
    ReplaceAll(ReplaceAll(template, UsernameToken, username), HostToken, host)

\* ssh.ts:112 mergeSshConfigs: configs is the argument list, lowest
\* precedence first; an undefined argument is skipped.
RECURSIVE MergeFrom(_, _)
MergeFrom(result, configs) ==
    IF configs = <<>> THEN result
    ELSE MergeFrom(IF Head(configs).def
                       THEN ObjectAssign(result, Head(configs).v)
                       ELSE result,
                   Tail(configs))

\* Whole-object replacement: the last block that is there wins as a whole.
RECURSIVE LastDefined(_)
LastDefined(configs) ==
    IF configs = <<>> THEN EmptyObject
    ELSE IF configs[Len(configs)].def THEN configs[Len(configs)].v
    ELSE LastDefined(SubSeq(configs, 1, Len(configs) - 1))

mergeSshConfigs(configs) == MergeFrom(EmptyObject, configs)

Returned(v) == [ok |-> TRUE, value |-> v, error |-> "none"]
Threw(e) == [ok |-> FALSE, value |-> Null, error |-> e]

\* ssh.ts:88 loadServersConfig
loadServersConfig(cfg) ==
    IF cfg = Null THEN Threw("Configuration not initialized")
    ELSE Returned(cfg)

\* ssh.ts:135-137: the provider block of a server record, if any.
ProviderSshOf(cfg, server) ==
    IF ~TruthyStr(server, "hostingProvider") THEN None
    ELSE IF "hostingProviders" \notin DOMAIN cfg THEN None
    ELSE IF Lookup(cfg["hostingProviders"], server["hostingProvider"]) = "own"
         THEN OptProp(cfg["hostingProviders"][server["hostingProvider"]], "ssh")
         ELSE None

\* ssh.ts:140-144: the three layers handed to mergeSshConfigs.  A server
\* found only through the prototype chain has no own properties.
MergedOf(cfg, domain) ==
    LET own == Lookup(cfg["servers"], domain) = "own"
        server == IF own THEN cfg["servers"][domain] ELSE EmptyObject
    IN  mergeSshConfigs(<<OptProp(cfg, "ssh"),
                          ProviderSshOf(cfg, server),
                          OptProp(server, "ssh")>>)

\* A profile whose port is the merged one, without a default.
ResolvedConfigOfMergedPort(cfg, domain, merged) ==
    LET own == Lookup(cfg["servers"], domain) = "own"
        hostText == IF own THEN cfg["servers"][domain]["host"] ELSE UndefinedText
        base == [username |-> merged["username"],
                 privateKeyPath |-> merged["privateKeyPath"],
                 wpRootPath |->
                    IF TruthyStr(merged, "wpRootPath")
                    THEN resolveTemplateVars(merged["wpRootPath"],
                                             merged["username"], hostText)
                    ELSE HomePrefix \o merged["username"] \o PublicHtmlSuffix]
        withHost == IF own THEN ObjectAssign(base, [host |-> hostText]) ELSE base
    IN  ObjectAssign(withHost,
                     [k \in DOMAIN merged \cap {"port", "passphrase"} |-> merged[k]])

\* ssh.ts:154-166: the resolved profile; a key is absent where the source
\* leaves the value undefined.
ResolvedConfigOf(cfg, domain, merged) ==
    LET own == Lookup(cfg["servers"], domain) = "own"
        hostText == IF own THEN cfg["servers"][domain]["host"] ELSE UndefinedText
        base == [port |-> IF "port" \in DOMAIN merged THEN merged["port"] ELSE 22,
                 username |-> merged["username"],
                 privateKeyPath |-> merged["privateKeyPath"],
                 wpRootPath |->
                    IF TruthyStr(merged, "wpRootPath")
                    THEN resolveTemplateVars(merged["wpRootPath"],
                                             merged["username"], hostText)
                    ELSE HomePrefix \o merged["username"] \o PublicHtmlSuffix]
        withHost == IF own THEN ObjectAssign(base, [host |-> hostText]) ELSE base
    IN  IF "passphrase" \in DOMAIN merged
        THEN ObjectAssign(withHost, [passphrase |-> merged["passphrase"]])
        ELSE withHost

\* ssh.ts:128-168: getSshConfig once the document is loaded.
ResolveIn(cfg, domain) ==
    IF Lookup(cfg["servers"], domain) = "undefined"
    THEN Threw("Server not found")
    ELSE LET merged == MergedOf(cfg, domain)
         IN  IF ~TruthyStr(merged, "username")
             THEN Threw("SSH username not configured")
             ELSE IF ~TruthyStr(merged, "privateKeyPath")
             THEN Threw("SSH private key path not configured")
             ELSE Returned(ResolvedConfigOf(cfg, domain, merged))

\* A resolver that takes a document that was never loaded for an empty one.
getSshConfigOfEmptyDefault(cfg, domain) ==
    IF cfg = Null THEN Threw("Server not found") ELSE ResolveIn(cfg, domain)

\* ssh.ts:126 getSshConfig
getSshConfig(cfg, domain) ==
    IF ~loadServersConfig(cfg).ok THEN loadServersConfig(cfg)
    ELSE ResolveIn(cfg, domain)

\* A merge that accumulates into its first argument: the global block of the
\* document ends as the merged one.
DocumentAfterMergeIntoGlobal(cfg, domain) ==
    IF cfg # Null /\ "ssh" \in DOMAIN cfg /\ Lookup(cfg["servers"], domain) # "undefined"
    THEN [cfg EXCEPT !["ssh"] = MergedOf(cfg, domain)]
    ELSE cfg

\* ssh.ts:113-119, 140-144: the document after getSshConfig(domain) has run.
\* The merge writes into a new object and nothing else is assigned, so no
\* block of the document changes.
DocumentAfterResolve(cfg, domain) == cfg

\* ssh.ts:174 getServerDomains
getServerDomains(cfg) ==
    IF ~loadServersConfig(cfg).ok THEN loadServersConfig(cfg)
    ELSE Returned(cfg["serverKeys"])

\* ssh.ts:182 getServerInfo
getServerInfo(cfg, domain) ==
    IF ~loadServersConfig(cfg).ok THEN loadServersConfig(cfg)
    ELSE CASE Lookup(cfg["servers"], domain) = "undefined" -> Threw("Server not found")
           [] Lookup(cfg["servers"], domain) = "inherited" -> Returned([t |-> "function"])
           [] Lookup(cfg["servers"], domain) = "own" -> Returned(cfg["servers"][domain])

-----------------------------------------------------------------------------
(* ConfigStore *)

\* A configuration file as initializeConfig sees it: st says whether the path
\* exists, can be read and holds JSON text; v is what JSON.parse returns.
MissingFile == [st |-> "missing", v |-> Null]
UnreadableFile == [st |-> "unreadable", v |-> Null]
BadJsonFile == [st |-> "badjson", v |-> Null]
JsonFile(j) == [st |-> "json", v |-> j]

\* A failing call, whatever it has put in the module state before throwing.
initializeConfigResetsOnFailure(f, old) ==
    IF f.st = "json" /\ ServersConfigSchema(f.v)
    THEN [out |-> Returned(Null), config |-> ServersConfigData(f.v)]
    ELSE [out |-> Threw("Invalid configuration"), config |-> Null]

\* ssh.ts:51 initializeConfig: how the call ends and the value of
\* cachedConfig after it, given its value before.
initializeConfig(f, old) ==
    CASE f.st = "missing" ->
            [out |-> Threw("Configuration file not found"), config |-> old]
      [] f.st = "unreadable" ->
            [out |-> Threw("Failed to read configuration file"), config |-> old]
      [] f.st = "badjson" ->
            [out |-> Threw("Invalid JSON in configuration file"), config |-> old]
      [] f.st = "json" /\ ~ServersConfigSchema(f.v) ->
            [out |-> Threw("Invalid configuration file structure"), config |-> old]
      [] f.st = "json" /\ ServersConfigSchema(f.v) ->
            [out |-> Returned(Null), config |-> ServersConfigData(f.v)]
-----------------------------------------------------------------------------
(* The configuration files of the model *)

Site1 == <<"s", "1">>
Site2 == <<"s", "2">>
Acme == <<"a", "c">>
NoSuchProvider == <<"n", "p">>
NoSuchSite == <<"n", "o">>
Constructor == <<"c", "o", "n", "s", "t", "r", "u", "c", "t", "o", "r">>
NumericSite == <<"7">>

\* The identifiers the callers of the model ask for.
Domains == {Site1, Site2, NoSuchSite, Constructor}

Host1 == <<"h", "1">>
Host2 == <<"h", "2">>

\* "/w/{username}/{host}"
Template1 == <<"/", "w", "/">> \o UsernameToken \o <<"/">> \o HostToken
\* "/{host}/x"
Template2 == <<"/">> \o HostToken \o <<"/", "x">>

GlobalBlocks ==
    { None,
      Some(JObj([port |-> JNum(22), username |-> JStr(<<"a">>),
                 privateKeyPath |-> JStr(<<"k">>)])),
      Some(JObj([username |-> JStr(<<"a">>), passphrase |-> JStr(<<"p">>),
                 wpRootPath |-> JStr(Template1)])),
      Some(JObj([privateKeyPath |-> JStr(<<"k">>)])),
      Some(JObj([port |-> JNum(0), username |-> JStr(<<"a">>)])) }

ProviderBlocks ==
    { None,
      Some(JObj([username |-> JStr(<<"b">>), port |-> JNum(2222)])),
      Some(JObj([privateKeyPath |-> JStr(<<"j">>), wpRootPath |-> JStr(Template2)])),
      Some(JObj([passphrase |-> JStr(<<"q">>)])),
      Some(JObj([username |-> JStr(<<"b">>), host |-> JStr(Host1)])) }

TargetBlocks ==
    { None,
      Some(JObj([username |-> JStr(<<"c">>)])),
      Some(JObj([port |-> JNum(2200), privateKeyPath |-> JStr(<<"i">>)])),
      Some(JObj([username |-> JStr(<<>>)])),
      Some(JObj([username |-> JStr(HostToken), privateKeyPath |-> JStr(<<"i">>)])),
      Some(JObj([passphrase |-> JStr(<<"r">>), wpRootPath |-> JStr(<<>>)])),
      Some(JObj([port |-> JStr(<<"2", "2">>)])) }

\* The provider named by the empty string is a key of hostingProviders too.
UnnamedProviderRecord ==
    JObj([ssh |-> JObj([username |-> JStr(<<"e">>), privateKeyPath |-> JStr(<<"e">>),
                        port |-> JNum(2022)])])

ProviderRefs == {None, Some(JStr(Acme)), Some(JStr(NoSuchProvider)), Some(JStr(<<>>))}

\* {k: opt.v} when the optional value is there, {} when it is not.
Field(k, opt) == IF opt.def THEN [x \in {k} |-> opt.v] ELSE EmptyObject

Site2Record ==
    JObj([name |-> JStr(<<"B">>), host |-> JStr(Host2),
          ssh |-> JObj([username |-> JStr(<<"z">>), privateKeyPath |-> JStr(<<"k">>)])])

\* A document with global block g, provider Acme with block p, and server
\* Site1 referring to provider hp with its own block t.
RawDoc(g, p, hp, t) ==
    JObj(ObjectAssign(
        Field("ssh", g),
        [hostingProviders |->
            JObj([x \in {Acme, <<>>} |->
                    IF x = Acme THEN JObj(Field("ssh", p)) ELSE UnnamedProviderRecord]),
         servers |-> JServers(<<Site1, Site2>>,
            [x \in {Site1, Site2} |->
                IF x = Site1
                THEN JObj(ObjectAssign(
                        ObjectAssign([name |-> JStr(<<"A">>), host |-> JStr(Host1)],
                                     Field("hostingProvider", hp)),
                        Field("ssh", t)))
                ELSE Site2Record])]))

\* Documents the schema rejects at the top level or in a server record, a
\* valid one without providers, and one whose second server has a number as
\* its identifier.
OtherDocs ==
    { JObj([ssh |-> JObj([username |-> JStr(<<"a">>)])]),
      JObj([servers |-> JServers(<<Site2>>, [x \in {Site2} |-> Site2Record]),
            extra |-> JNum(1)]),
      JObj([servers |-> JServers(<<Site1>>,
                [x \in {Site1} |-> JObj([host |-> JStr(Host1)])])]),
      JObj([servers |-> JServers(<<Site2>>, [x \in {Site2} |-> Site2Record])]),
      JObj([servers |-> JServers(<<Site2, NumericSite>>,
                                 [x \in {Site2, NumericSite} |-> Site2Record])]) }

\* The files of one run: the three unusable ones, the documents above and one
\* layered document.
DiskWith(g, p, hp, t) ==
    {MissingFile, UnreadableFile, BadJsonFile}
        \cup {JsonFile(j) : j \in OtherDocs}
        \cup {JsonFile(RawDoc(g, p, hp, t))}

-----------------------------------------------------------------------------
(* More text: case, whitespace, comparison *)

UpperCase == <<"A", "B", "C", "D", "E", "F", "G", "H", "I", "J", "K", "L", "M",
               "N", "O", "P", "Q", "R", "S", "T", "U", "V", "W", "X", "Y", "Z">>
LowerCase == <<"a", "b", "c", "d", "e", "f", "g", "h", "i", "j", "k", "l", "m",
               "n", "o", "p", "q", "r", "s", "t", "u", "v", "w", "x", "y", "z">>

IsUpper(c) == \E i \in 1..26 : UpperCase[i] = c
IsLower(c) == \E i \in 1..26 : LowerCase[i] = c
LowerChar(c) ==
    IF IsUpper(c) THEN LowerCase[CHOOSE i \in 1..26 : UpperCase[i] = c] ELSE c

\* s.toLowerCase()
ToLowerCase(s) == [i \in 1..Len(s) |-> LowerChar(s[i])]

\* The characters \s matches and trim() removes, of those the model uses.
IsSpace(c) == c \in {" ", "\n", "\t", "\r"}

RECURSIVE TrimStart(_)
TrimStart(s) ==
    IF s # <<>> /\ IsSpace(Head(s)) THEN TrimStart(Tail(s)) ELSE s

RECURSIVE TrimEnd(_)
TrimEnd(s) ==
    IF s # <<>> /\ IsSpace(s[Len(s)]) THEN TrimEnd(SubSeq(s, 1, Len(s) - 1)) ELSE s

\* s.trim()
Trim(s) == TrimEnd(TrimStart(s))

EndsWith(s, suffix) ==
    /\ Len(suffix) <= Len(s)
    /\ SubSeq(s, Len(s) - Len(suffix) + 1, Len(s)) = suffix

\* a.localeCompare(b) in the default collation, for text over hyphen, dot,
\* digits and letters: the first difference of the characters taken without
\* case decides (punctuation before digits before letters, a prefix before
\* its extensions); when there is none, the first difference in case decides,
\* lower case first.
CollationOrder == <<"-", ".">> \o Digits \o LowerCase
PrimaryRank(c) == CHOOSE i \in 1..Len(CollationOrder) : CollationOrder[i] = LowerChar(c)

RECURSIVE PrimaryCompare(_, _)
PrimaryCompare(a, b) ==
    IF a = <<>> /\ b = <<>> THEN 0
    ELSE IF a = <<>> THEN -1
    ELSE IF b = <<>> THEN 1
    ELSE IF PrimaryRank(Head(a)) < PrimaryRank(Head(b)) THEN -1
    ELSE IF PrimaryRank(Head(a)) > PrimaryRank(Head(b)) THEN 1
    ELSE PrimaryCompare(Tail(a), Tail(b))

RECURSIVE CaseCompare(_, _)
CaseCompare(a, b) ==
    IF a = <<>> \/ b = <<>> THEN 0
    ELSE IF IsLower(Head(a)) /\ IsUpper(Head(b)) THEN -1
    ELSE IF IsUpper(Head(a)) /\ IsLower(Head(b)) THEN 1
    ELSE CaseCompare(Tail(a), Tail(b))

LocaleCompare(a, b) ==
    IF PrimaryCompare(a, b) # 0 THEN PrimaryCompare(a, b) ELSE CaseCompare(a, b)

-----------------------------------------------------------------------------
(* TargetRegistry: search *)

\* A match that takes every query for a prefix.
MatchTypeOfPrefixOnly(searchMode, normalizedField, searchQuery) ==
    IF normalizedField = searchQuery THEN "exact"
    ELSE IF StartsWith(normalizedField, searchQuery) THEN "prefix"
    ELSE "none"

\* ssh.ts:226-245: the match of one field value against the query, "none"
\* when there is none.
MatchTypeOf(searchMode, normalizedField, searchQuery) ==
    IF normalizedField = searchQuery THEN "exact"
    ELSE IF searchMode = "prefix" /\ StartsWith(normalizedField, searchQuery) THEN "prefix"
    ELSE IF searchMode = "suffix" /\ EndsWith(normalizedField, searchQuery) THEN "suffix"
    ELSE "none"

\* ssh.ts:222-255: the entries one server contributes, in the order of fields.
RECURSIVE EntriesOf(_, _, _, _)
EntriesOf(server, fields, searchMode, searchQuery) ==
    IF fields = <<>> THEN <<>>
    ELSE LET field == Head(fields)
             fieldValue == IF field = "host" THEN server.domain ELSE server.name
             matchType == MatchTypeOf(searchMode, ToLowerCase(fieldValue), searchQuery)
         IN  (IF matchType = "none" THEN <<>>
              ELSE <<[domain |-> server.domain, name |-> server.name,
                      matchedField |-> field, matchType |-> matchType,
                      score |-> IF matchType = "exact" THEN 100 ELSE 50]>>)
             \o EntriesOf(server, Tail(fields), searchMode, searchQuery)

\* ssh.ts:221-256: the entries of all servers, in the order of servers.
RECURSIVE CollectEntries(_, _, _, _)
CollectEntries(servers, fields, searchMode, searchQuery) ==
    IF servers = <<>> THEN <<>>
    ELSE EntriesOf(Head(servers), fields, searchMode, searchQuery)
            \o CollectEntries(Tail(servers), fields, searchMode, searchQuery)

\* A comparator that puts the lower score first.
CompareResultsAscendingScore(a, b) ==
    IF a.score # b.score THEN a.score - b.score
    ELSE IF a.matchedField # b.matchedField
         THEN (IF a.matchedField = "host" THEN -1 ELSE 1)
    ELSE LocaleCompare(a.domain, b.domain)

\* ssh.ts:259-265: the comparator of the sort.
CompareResults(a, b) ==
    IF a.score # b.score THEN b.score - a.score
    ELSE IF a.matchedField # b.matchedField
         THEN (IF a.matchedField = "host" THEN -1 ELSE 1)
    ELSE LocaleCompare(a.domain, b.domain)

\* Array.prototype.sort is stable: an entry goes after the entries that do
\* not compare greater than it.
RECURSIVE InsertSorted(_, _)
InsertSorted(sorted, x) ==
    IF sorted = <<>> THEN <<x>>
    ELSE IF CompareResults(sorted[Len(sorted)], x) <= 0 THEN Append(sorted, x)
    ELSE Append(InsertSorted(SubSeq(sorted, 1, Len(sorted) - 1), x), sorted[Len(sorted)])

RECURSIVE SortResults(_)
SortResults(results) ==
    IF results = <<>> THEN <<>>
    ELSE InsertSorted(SortResults(SubSeq(results, 1, Len(results) - 1)),
                      results[Len(results)])

\* ssh.ts:204 searchServers
searchServers(servers, query, fields) ==
    LET normalizedQuery == Trim(ToLowerCase(query))
        suffix == StartsWith(normalizedQuery, <<"*">>) \/ StartsWith(normalizedQuery, <<"%">>)
        searchMode == IF suffix THEN "suffix" ELSE "prefix"
        searchQuery == IF suffix THEN Tail(normalizedQuery) ELSE normalizedQuery
    IN  Returned(SortResults(CollectEntries(servers, fields, searchMode, searchQuery)))

-----------------------------------------------------------------------------
(* RemoteExecutor: one executeSshCommand invocation *)

\* The exit code the stream's close event carries: a number, or no value when
\* the remote process ended without an exit status.
ExitCode(n) == [def |-> TRUE, v |-> n]
NoExitCode == [def |-> FALSE, v |-> 0]

NoResult == [code |-> NoExitCode, stdout |-> <<>>, stderr |-> <<>>, success |-> FALSE]

Pending == [state |-> "pending", result |-> NoResult, error |-> "none"]
Resolved(r) == [state |-> "resolved", result |-> r, error |-> "none"]
Rejected(e) == [state |-> "rejected", result |-> NoResult, error |-> e]

\* resolve(...) and reject(...) settle a promise that is still pending and do
\* nothing to a settled one.
Settle(promise, outcome) == IF promise.state = "pending" THEN outcome ELSE promise

\* ssh.ts:318-324: the options given to conn.connect, but for the key, whose
\* file's state the invocation records.
ConnectOptionsDefaultPort(profile) ==
    [k \in DOMAIN profile \ {"wpRootPath", "privateKeyPath"} |->
        IF k = "port" THEN 22 ELSE profile[k]]

ConnectOptions(profile) ==
    [k \in DOMAIN profile \ {"wpRootPath", "privateKeyPath"} |-> profile[k]]

\* A chunk is a Buffer: a sequence of bytes.  A byte below 0x80 is written
\* as its character; LeadByte and ContinuationByte are 0xC3 and 0xA9, the
\* UTF-8 encoding of U+00E9 ("E_ACUTE" as a character).
LeadByte == "C3"
ContinuationByte == "A9"

\* data.toString() (ssh.ts:305, 309): UTF-8 decoding of one Buffer; a byte
\* that is not part of a complete sequence inside the Buffer decodes to the
\* replacement character U+FFFD.
RECURSIVE BufferToString(_)
BufferToString(bytes) ==
    IF bytes = <<>> THEN <<>>
    ELSE IF Head(bytes) = LeadByte /\ Len(bytes) >= 2 /\ bytes[2] = ContinuationByte
    THEN <<"E_ACUTE">> \o BufferToString(SubSeq(bytes, 3, Len(bytes)))
    ELSE IF Head(bytes) \in {LeadByte, ContinuationByte}
    THEN <<"U+FFFD">> \o BufferToString(Tail(bytes))
    ELSE <<Head(bytes)>> \o BufferToString(Tail(bytes))

\* ssh.ts:273-326, up to the return of the promise.  key says what the file
\* at privateKeyPath is: "ok", "unreadable" (readFileSync throws) or
\* "invalid" (conn.connect throws on it inside the promise executor).
\* connect lists the arguments of the conn.connect calls, execs the commands
\* given to conn.exec, ended counts the conn.end calls; transport is "open"
\* from the connect call until the connection has closed.  emittedOut,
\* emittedErr and closeCode are what the remote side has sent: the chunks of
\* the two streams and the exit code of the stream's close event.
StartSsh(cfg, caller, domain, command, key) ==
    LET r == getSshConfig(cfg, domain)
        base == [caller |-> caller, domain |-> domain, command |-> command,
                 key |-> key, connect |-> <<>>, execs |-> <<>>, ended |-> 0,
                 phase |-> "failed", transport |-> "none", errors |-> 0,
                 errorFirst |-> FALSE,
                 stdout |-> <<>>, stderr |-> <<>>,
                 emittedOut |-> <<>>, emittedErr |-> <<>>, closeCode |-> NoExitCode,
                 promise |-> Pending]
    IN  IF ~r.ok THEN [base EXCEPT !.key = "none", !.promise = Rejected(r.error)]
        ELSE IF key = "unreadable"
        THEN [base EXCEPT !.promise = Rejected("ENOENT: no such file or directory")]
        ELSE IF key = "invalid"
        THEN [base EXCEPT !.connect = <<ConnectOptions(r.value)>>,
                          !.promise = Rejected("Cannot parse privateKey")]
        ELSE [base EXCEPT !.connect = <<ConnectOptions(r.value)>>, !.phase = "connecting",
                          !.transport = "open"]

\* ssh.ts:283-284: the "ready" handler calls conn.exec.
OnReady(inv) ==
    [inv EXCEPT !.phase = "execRequested", !.execs = Append(@, inv.command)]

\* ssh.ts:285-289: the exec callback with an error.
OnExecError(inv, err) ==
    [inv EXCEPT !.phase = "execFailed", !.ended = @ + 1,
                !.promise = Settle(@, Rejected(err))]

\* ssh.ts:291-310: the exec callback with a stream attaches the handlers.
OnExecStream(inv) == [inv EXCEPT !.phase = "streaming"]

\* Output variables shared by all invocations: those of the first.
OutputVariablesShared(sessions, i) == 1

\* ssh.ts:291-292: the invocation whose stdout and stderr variables the
\* handlers of stream i append to.  The variables are declared in the exec
\* callback, one pair for each invocation.
OutputVariables(sessions, i) == i

\* ssh.ts:304-306
OnData(inv, chunk) ==
    [inv EXCEPT !.stdout = @ \o BufferToString(chunk)]

\* ssh.ts:308-310
OnStderrData(inv, chunk) ==
    [inv EXCEPT !.stderr = @ \o BufferToString(chunk)]

\* ssh.ts:294-302: the "close" handler of the stream.
OnStreamClose(inv, code) ==
    [inv EXCEPT !.phase = "streamClosed", !.ended = @ + 1,
                !.promise = Settle(@, Resolved([code |-> code, stdout |-> inv.stdout,
                                                stderr |-> inv.stderr,
                                                success |-> code.def /\ code.v = 0]))]

\* An "error" handler that lets the call go on.
OnErrorIgnored(inv, err) ==
    [inv EXCEPT !.errors = @ + 1,
                !.errorFirst = @ \/ inv.phase # "streamClosed"]

\* ssh.ts:314-316: the "error" handler of the connection.  errorFirst
\* remembers that an error came before the stream had closed.
OnError(inv, err) ==
    [inv EXCEPT !.errors = @ + 1,
                !.errorFirst = @ \/ inv.phase # "streamClosed",
                !.promise = Settle(@, Rejected(err))]

\* The connection has closed: no handler is registered for it (ssh.ts:283,
\* 314 register "ready" and "error" only), and no event follows.
OnConnectionClosed(inv) == [inv EXCEPT !.transport = "closed"]

\* A command line without the change of directory.
WpCommandLineWithoutCd(wpRootPath, wpCommand) == <<"w", "p", " ">> \o wpCommand

\* ssh.ts:337: the command line of executeWpCommand.
WpCommandLine(wpRootPath, wpCommand) ==
    <<"c", "d", " ">> \o wpRootPath \o <<" ", "&", "&", " ", "w", "p", " ">> \o wpCommand

-----------------------------------------------------------------------------
(* ScriptPayloadBuilder: arguments *)

\* A long run of one character is written as one element of a text: the
\* entry of the element in RunTable gives the character and the number of
\* its repetitions.  "E_ACUTE" stands for the one character U+00E9.
RunTable ==
    [tok \in {"x*32767", "E_ACUTE*16385"} |->
        IF tok = "x*32767" THEN [ch |-> "x", n |-> 32767]
        ELSE [ch |-> "E_ACUTE", n |-> 16385]]

RunOf(c) == IF c \in DOMAIN RunTable THEN RunTable[c] ELSE [ch |-> c, n |-> 1]

\* UTF-16 code units of a character (what String.prototype.length counts)
\* and the bytes of its UTF-8 encoding.
CodeUnits(ch) == 1
Utf8Bytes(ch) == IF ch = "E_ACUTE" THEN 2 ELSE 1

\* arg.length
RECURSIVE JsLength(_)
JsLength(text) ==
    IF text = <<>> THEN 0
    ELSE RunOf(Head(text)).n * CodeUnits(RunOf(Head(text)).ch) + JsLength(Tail(text))

\* Buffer.byteLength(arg, "utf8")
RECURSIVE ByteLength(_)
ByteLength(text) ==
    IF text = <<>> THEN 0
    ELSE RunOf(Head(text)).n * Utf8Bytes(RunOf(Head(text)).ch) + ByteLength(Tail(text))

\* ssh.ts:527-528
MAX_ARGS == 50
MAX_TOTAL_LENGTH == 32768

\* ssh.ts:541: args.reduce((sum, arg) => sum + arg.length, 0)
RECURSIVE TotalArgsLength(_)
TotalArgsLength(args) ==
    IF args = <<>> THEN 0 ELSE JsLength(Head(args)) + TotalArgsLength(Tail(args))

\* [a-zA-Z0-9@%+=:,./_-]
SafeChars ==
    {UpperCase[i] : i \in 1..26} \cup {LowerCase[i] : i \in 1..26}
        \cup {Digits[i] : i \in 1..10}
        \cup {"@", "%", "+", "=", ":", ",", ".", "/", "_", "-"}

\* A quoting that wraps the argument and leaves its quotes alone.
shellQuoteWithoutEscape(arg) ==
    IF arg = <<>> THEN <<"'", "'">>
    ELSE IF \A i \in 1..Len(arg) : RunOf(arg[i]).ch \in SafeChars THEN arg
    ELSE <<"'">> \o arg \o <<"'">>

\* ssh.ts:386 shellQuote
shellQuote(arg) ==
    IF arg = <<>> THEN <<"'", "'">>
    ELSE IF \A i \in 1..Len(arg) : RunOf(arg[i]).ch \in SafeChars THEN arg
    ELSE <<"'">> \o ReplaceAll(arg, <<"'">>, <<"'", "\"", "'", "\"", "'">>) \o <<"'">>

\* ssh.ts:554: args.map(shellQuote).join(" ")
RECURSIVE EscapedArgs(_)
EscapedArgs(args) ==
    IF args = <<>> THEN <<>>
    ELSE IF Len(args) = 1 THEN shellQuote(args[1])
    ELSE shellQuote(Head(args)) \o <<" ">> \o EscapedArgs(Tail(args))

-----------------------------------------------------------------------------
(* ScriptPayloadBuilder: source, syntax check, command, result *)

NoText == [def |-> FALSE, v |-> <<>>]

\* The data property of a result that has none.
NoData == [def |-> FALSE, v |-> Null]

\* JSON.parse(text) for text over digits, white space and characters that
\* start no JSON value: the value of a number, NoData when it throws.
RECURSIVE NumVal(_)
NumVal(digits) ==
    IF digits = <<>> THEN 0
    ELSE 10 * NumVal(SubSeq(digits, 1, Len(digits) - 1)) + DigitVal(digits[Len(digits)])

JsonParse(text) ==
    IF /\ TrimEnd(TrimStart(text)) # <<>>
       /\ \A i \in 1..Len(TrimEnd(TrimStart(text))) : IsDigit(TrimEnd(TrimStart(text))[i])
       /\ Len(TrimEnd(TrimStart(text))) > 1 => TrimEnd(TrimStart(text))[1] # "0"
    THEN Some(JNum(NumVal(TrimEnd(TrimStart(text)))))
    ELSE NoData

\* ssh.ts:645-652: data, parsed from the trimmed stdout when that is not
\* empty.
ParsedData(stdout) ==
    IF Trim(stdout) = <<>> THEN NoData ELSE JsonParse(Trim(stdout))

\* A failure result built before or instead of a remote result.  A literal
\* part of a message is one element of the text.
Failure(error, source) ==
    [success |-> FALSE, data |-> NoData, stdout |-> <<>>, stderr |-> <<>>,
     code |-> ExitCode(-1), error |-> Some(error), source |-> source]

\* ssh.ts:689 looksLikeFilePath
looksLikeFilePath(str) ==
    LET trimmed == Trim(str)
    IN  \/ EndsWith(trimmed, <<".", "p", "h", "p">>)
        \/ StartsWith(trimmed, <<"/">>)
        \/ StartsWith(trimmed, <<".", "/">>)
        \/ StartsWith(trimmed, <<".", ".", "/">>)
        \/ /\ Len(trimmed) >= 3
           /\ IsUpper(trimmed[1]) \/ IsLower(trimmed[1])
           /\ trimmed[2] = ":"
           /\ trimmed[3] \in {"\\", "/"}

\* ssh.ts:578, 597: code.replace(/^<\?php\s*/i, "")
StripOpeningTag(code) ==
    IF Len(code) >= 5 /\ ToLowerCase(SubSeq(code, 1, 5)) = <<"<", "?", "p", "h", "p">>
    THEN TrimStart(SubSeq(code, 6, Len(code)))
    ELSE code

\* ssh.ts:580, 599: code.replace(/\?>\s*$/i, "")
StripClosingTag(code) ==
    IF EndsWith(TrimEnd(code), <<"?", ">">>)
    THEN SubSeq(TrimEnd(code), 1, Len(TrimEnd(code)) - 2)
    ELSE code

\* An availability that is probed at every call.
isPhpAvailableUncached(cache, installed) == IF installed THEN "yes" ELSE "no"

\* ssh.ts:407 isPhpAvailable: the answer, which is also the cache afterwards;
\* installed says whether "php -v" succeeds when it is run.
isPhpAvailable(cache, installed) ==
    IF cache # "unknown" THEN cache
    ELSE IF installed THEN "yes" ELSE "no"

\* ssh.ts:435 checkPhpSyntax.  lint is what happens when the check runs:
\* "valid", "mkdtempFails" (the temporary directory cannot be made),
\* "writeFails" (the file cannot be written into it), or php -l fails with a
\* message and line ("errorLine"), with other output ("errorRaw",
\* "errorBlank" when it is white space) or with none ("errorSilent").
LintMessage == <<"P", "a", "r", "s", "e">>
LintLine == 3

\* The temporary directory and the file in it: whether they exist.
NoTemp == [dir |-> FALSE, file |-> FALSE]

\* ssh.ts:446-454: what the try block has created when it is left.
TempCreated(lint) ==
    CASE lint = "mkdtempFails" -> NoTemp
      [] lint = "writeFails" -> [dir |-> TRUE, file |-> FALSE]
      [] OTHER -> [dir |-> TRUE, file |-> TRUE]

\* ssh.ts:486-490: unlinkSync(tempFile), an error of which is ignored.
Unlink(temp) == [temp EXCEPT !.file = FALSE]

\* ssh.ts:491-498: rmdirSync(tempDir), which removes an empty directory
\* only and an error of which is ignored.
Rmdir(temp) == IF temp.file THEN temp ELSE [temp EXCEPT !.dir = FALSE]

\* A clean-up that removes the directory first.
CleanUpDirectoryFirst(temp) == Unlink(Rmdir(temp))

\* ssh.ts:484-499: the finally block.
CleanUp(temp) == Rmdir(Unlink(temp))

\* A check that never reports an error.
checkPhpSyntaxAlwaysValid(available, lint) ==
    [valid |-> TRUE, error |-> <<>>, temp |-> NoTemp]

checkPhpSyntax(available, lint) ==
    IF available # "yes" THEN [valid |-> TRUE, error |-> <<>>, temp |-> NoTemp]
    ELSE LET temp == CleanUp(TempCreated(lint))
         IN  CASE lint \in {"valid", "mkdtempFails", "writeFails"} ->
                    [valid |-> TRUE, error |-> <<>>, temp |-> temp]
               [] lint = "errorLine" ->
                    [valid |-> FALSE,
                     error |-> Trim(LintMessage) \o <<" on line ", ToString(LintLine - 1)>>,
                     temp |-> temp]
               [] lint = "errorRaw" ->
                    [valid |-> FALSE, error |-> Trim(<<"E", "r", "r", "\n">>), temp |-> temp]
               [] lint = "errorBlank" ->
                    [valid |-> FALSE, error |-> Trim(<<"\n">>), temp |-> temp]
               [] lint = "errorSilent" ->
                    [valid |-> FALSE, error |-> <<"PHP syntax error">>, temp |-> temp]

\* ssh.ts:618-619: the remote temporary file; the time and the random suffix
\* are one element.
TempFilePath == <<"/tmp/wp-mcp-", "TIME-RANDOM", ".php">>

\* ssh.ts:623
HeredocMarker == <<"W", "P", "M", "C", "P", "_", "P", "H", "P", "_", "C", "O", "D", "E">>

\* ssh.ts:631-639: the composite command.
CompositeCommand(wpRootPath, phpCode, escapedArgs) ==
    <<"cd ">> \o wpRootPath \o <<" && cat > ">> \o TempFilePath
        \o <<" << '">> \o HeredocMarker \o <<"'", "\n">>
        \o <<"<?php", "\n">>
        \o phpCode \o <<"\n">>
        \o HeredocMarker \o <<"\n">>
        \o <<"wp eval-file ">> \o TempFilePath
        \o (IF escapedArgs # <<>> THEN <<" ">> \o escapedArgs ELSE <<>>) \o <<"\n">>
        \o <<"WP_EXIT_CODE=$?", "\n">>
        \o <<"rm -f ">> \o TempFilePath \o <<"\n">>
        \o <<"exit $WP_EXIT_CODE">>

-----------------------------------------------------------------------------
(* The remote shell: how a POSIX shell reads and runs the composite command *)

\* The character U+0060.
Backquote == "BACKQUOTE"

\* Characters with a meaning of their own outside quotes.
ShellSpecial == {"$", Backquote, "*", "?", "[", ";", "&", "|", "<", ">", "(", ")", "#", "~"}

\* The words the shell reads from text: quote removal and field splitting.
\* mode is "plain", "single" or "double"; word is the word read so far and
\* inWord says that there is one.  An expansion or an operator is kept as an
\* element of its own, as is the end of the text inside quotes.
RECURSIVE ReadWords(_, _, _, _)
ReadWords(text, mode, word, inWord) ==
    IF text = <<>>
    THEN IF mode # "plain" THEN <<Append(word, "<unterminated>")>>
         ELSE IF inWord THEN <<word>> ELSE <<>>
    ELSE LET c == Head(text)
             rest == Tail(text)
         IN  CASE mode = "single" ->
                    IF c = "'" THEN ReadWords(rest, "plain", word, TRUE)
                    ELSE ReadWords(rest, "single", Append(word, c), TRUE)
               [] mode = "double" ->
                    IF c = "\"" THEN ReadWords(rest, "plain", word, TRUE)
                    ELSE IF c = "\\" /\ rest # <<>> /\ Head(rest) \in {"$", Backquote, "\"", "\\"}
                    THEN ReadWords(Tail(rest), "double", Append(word, Head(rest)), TRUE)
                    ELSE IF c = "\\" /\ rest # <<>> /\ Head(rest) = "\n"
                    THEN ReadWords(Tail(rest), "double", word, TRUE)
                    ELSE IF c \in {"$", Backquote}
                    THEN ReadWords(rest, "double", Append(word, "<expansion>"), TRUE)
                    ELSE ReadWords(rest, "double", Append(word, c), TRUE)
               [] OTHER ->
                    IF c = "'" THEN ReadWords(rest, "single", word, TRUE)
                    ELSE IF c = "\"" THEN ReadWords(rest, "double", word, TRUE)
                    ELSE IF c = "\\" /\ rest # <<>> /\ Head(rest) = "\n"
                    THEN ReadWords(Tail(rest), "plain", word, inWord)
                    ELSE IF c = "\\" /\ rest # <<>>
                    THEN ReadWords(Tail(rest), "plain", Append(word, Head(rest)), TRUE)
                    ELSE IF c \in {" ", "\t", "\n"}
                    THEN (IF inWord THEN <<word>> ELSE <<>>)
                            \o ReadWords(rest, "plain", <<>>, FALSE)
                    ELSE IF c \in ShellSpecial
                    THEN ReadWords(rest, "plain", Append(word, "<special>"), TRUE)
                    ELSE ReadWords(rest, "plain", Append(word, c), TRUE)

ShellWords(text) == ReadWords(text, "plain", <<>>, FALSE)

\* The lines of a text.
RECURSIVE SplitLines(_)
SplitLines(text) ==
    IF \A k \in 1..Len(text) : text[k] # "\n" THEN <<text>>
    ELSE LET k == CHOOSE k \in 1..Len(text) :
                      text[k] = "\n" /\ \A j \in 1..(k - 1) : text[j] # "\n"
         IN  <<SubSeq(text, 1, k - 1)>> \o SplitLines(SubSeq(text, k + 1, Len(text)))

RECURSIVE JoinLines(_)
JoinLines(lines) ==
    IF lines = <<>> THEN <<>> ELSE Head(lines) \o <<"\n">> \o JoinLines(Tail(lines))

\* The delimiter of the here-document that a line opens with << '...'.
HeredocDelimiter(opener) ==
    LET k == CHOOSE k \in 1..Len(opener) : opener[k] = " << '"
    IN  SubSeq(opener, k + 1, Len(opener) - 1)

\* The here-document ends at the first line that is its delimiter, or with
\* the text.
HeredocEnd(lines, delimiter) ==
    IF \E k \in 2..Len(lines) : lines[k] = delimiter
    THEN CHOOSE k \in 2..Len(lines) :
            lines[k] = delimiter /\ \A j \in 2..(k - 1) : lines[j] # delimiter
    ELSE Len(lines) + 1

NotExited == [def |-> FALSE, v |-> 0]

\* One line after the here-document.  st is the state of the run: file (the
\* temporary file exists), status ($?), var (WP_EXIT_CODE), exited, wp (the
\* exit statuses of the wp runs), wpArgs (the words wp was given after the
\* file), shell (the other lines the shell has run as commands).  env.wp is
\* the exit status of wp when its file exists.
RunLine(line, st, env) ==
    IF line = <<>> THEN st
    ELSE IF Head(line) = "wp eval-file "
    THEN LET status == IF st.file THEN env.wp ELSE 1
         IN  [st EXCEPT !.status = status, !.wp = Append(@, status),
                        !.wpArgs = Tail(ShellWords(Tail(line)))]
    ELSE IF line = <<"WP_EXIT_CODE=$?">>
    THEN [st EXCEPT !.var = st.status, !.status = 0]
    ELSE IF Head(line) = "rm -f "
    THEN [st EXCEPT !.file = FALSE, !.status = 0]
    ELSE IF line = <<"exit $WP_EXIT_CODE">>
    THEN [st EXCEPT !.exited = [def |-> TRUE, v |-> st.var]]
    ELSE IF line = <<"e", "x", "i", "t">>
    THEN [st EXCEPT !.exited = [def |-> TRUE, v |-> st.status],
                    !.shell = Append(@, line)]
    ELSE [st EXCEPT !.status = 127, !.shell = Append(@, line)]

RECURSIVE RunLines(_, _, _)
RunLines(lines, st, env) ==
    IF lines = <<>> \/ st.exited.def THEN st
    ELSE RunLines(Tail(lines), RunLine(Head(lines), st, env), env)

\* The composite command run to its end by the remote shell.  env.cd says
\* whether the change of directory succeeds, env.write whether cat can write
\* the file it has created.  The result: file (the temporary file exists
\* afterwards), content (what was written to it when the write succeeded),
\* exit (the exit status), and wp, wpArgs, shell as above.
RemoteRun(command, env) ==
    LET lines == SplitLines(command)
        last == HeredocEnd(lines, HeredocDelimiter(lines[1]))
        body == SubSeq(lines, 2, last - 1)
        written == env.cd /\ env.write
        st == [file |-> env.cd, status |-> IF written THEN 0 ELSE 1, var |-> 0,
               exited |-> NotExited, wp |-> <<>>, wpArgs |-> <<>>, shell |-> <<>>]
        end == RunLines(SubSeq(lines, last + 1, Len(lines)), st, env)
    IN  [file |-> end.file,
         content |-> IF written THEN JoinLines(body) ELSE <<>>,
         exit |-> IF end.exited.def THEN end.exited.v ELSE end.status,
         wp |-> end.wp, wpArgs |-> end.wpArgs, shell |-> end.shell]

\* An input that is read as a file whenever it looks like a path.
TreatAsFileByLooks(type, codeOrPath, exists) ==
    type = "file" \/ (type = "auto" /\ looksLikeFilePath(codeOrPath))

\* ssh.ts:559-561: whether the input is read as a file; exists is
\* existsSync(codeOrPath).
TreatAsFile(type, codeOrPath, exists) ==
    \/ type = "file"
    \/ /\ type = "auto"
       /\ looksLikeFilePath(codeOrPath)
       /\ exists

\* The text of a local file that can be read.
LocalFileContent ==
    <<"<", "?", "p", "h", "p", "\n", "e", "c", "h", "o", " ", "2", ";", "\n", "?", ">", "\n">>

\* ssh.ts:519-639: executePhpCode up to its call of executeSshCommand.
\* in is the call's input (domain, codeOrPath, type, args); env is what the
\* call finds on the local machine (file: the state of the path codeOrPath,
\* "absent", "unreadable" or "readable"; installed and lint: see above).
\* kind says how this part ends: "returned" with result, "threw" with error,
\* or "await" with the command for executeSshCommand; temp is what is left
\* of the files of the syntax check, probed whether "php -v" was run.
PhpBeforeAwait(cfg, cache, in, env) ==
    LET none == [kind |-> "returned", result |-> Failure(<<>>, "code"), error |-> "none",
                 command |-> <<>>, source |-> "code", cache |-> cache,
                 temp |-> NoTemp, probed |-> FALSE]
        asFile == TreatAsFile(in.type, in.codeOrPath, env.file # "absent")
        source == IF asFile THEN "file" ELSE "code"
        raw == IF asFile THEN LocalFileContent ELSE in.codeOrPath
        phpCode == StripClosingTag(StripOpeningTag(raw))
        available == isPhpAvailable(cache, env.installed)
        syntaxCheck == checkPhpSyntax(available, env.lint)
        sshConfig == getSshConfig(cfg, in.domain)
    IN  IF Len(in.args) > MAX_ARGS
        THEN [none EXCEPT !.result =
                Failure(<<"Too many arguments: ", ToString(Len(in.args)),
                          " provided, maximum is ", ToString(MAX_ARGS)>>, "code")]
        ELSE IF TotalArgsLength(in.args) > MAX_TOTAL_LENGTH
        THEN [none EXCEPT !.result =
                Failure(<<"Arguments too long: ", ToString(TotalArgsLength(in.args)),
                          " bytes, maximum is ", ToString(MAX_TOTAL_LENGTH), " bytes">>,
                        "code")]
        ELSE IF asFile /\ env.file = "absent"
        THEN [none EXCEPT !.source = "file", !.result =
                Failure(<<"PHP file not found: ">> \o in.codeOrPath, "file")]
        ELSE IF asFile /\ env.file = "unreadable"
        THEN [none EXCEPT !.source = "file", !.result =
                Failure(<<"Failed to read PHP file: ", "EACCES">>, "file")]
        ELSE IF ~syntaxCheck.valid
        THEN [none EXCEPT !.source = source, !.cache = available,
                          !.temp = syntaxCheck.temp, !.probed = cache = "unknown",
                          !.result =
                Failure(<<"PHP syntax error: ">> \o syntaxCheck.error, source)]
        ELSE IF ~sshConfig.ok
        THEN [none EXCEPT !.kind = "threw", !.error = sshConfig.error,
                          !.source = source, !.cache = available,
                          !.temp = syntaxCheck.temp, !.probed = cache = "unknown"]
        ELSE [none EXCEPT !.kind = "await", !.source = source, !.cache = available,
                          !.temp = syntaxCheck.temp, !.probed = cache = "unknown",
                          !.command = CompositeCommand(sshConfig.value["wpRootPath"],
                                                       phpCode, EscapedArgs(in.args))]

\* The text of an exit code in a template literal.
CodeText(code) == IF code.def THEN ToString(code.v) ELSE "undefined"

\* The same with the captured stderr as the only error message.
PhpAfterAwaitStderrOnly(promise, source) ==
    IF promise.state = "rejected"
    THEN Failure(<<"Failed to execute PHP code: ", promise.error>>, source)
    ELSE [success |-> promise.result.success, data |-> ParsedData(promise.result.stdout),
          stdout |-> promise.result.stdout,
          stderr |-> promise.result.stderr, code |-> promise.result.code,
          error |-> IF promise.result.success THEN NoText ELSE Some(promise.result.stderr),
          source |-> source]

\* The same with data attached to successful results only.
PhpAfterAwaitDataOnSuccess(promise, source) ==
    IF promise.state = "rejected"
    THEN Failure(<<"Failed to execute PHP code: ", promise.error>>, source)
    ELSE [success |-> promise.result.success,
          data |-> IF promise.result.success THEN ParsedData(promise.result.stdout)
                   ELSE NoData,
          stdout |-> promise.result.stdout,
          stderr |-> promise.result.stderr, code |-> promise.result.code,
          error |-> IF promise.result.success THEN NoText
                    ELSE Some(IF promise.result.stderr # <<>> THEN promise.result.stderr
                              ELSE <<"Command failed with exit code ",
                                     CodeText(promise.result.code)>>),
          source |-> source]

\* ssh.ts:641-683: executePhpCode after executeSshCommand has settled.
PhpAfterAwait(promise, source) ==
    IF promise.state = "rejected"
    THEN Failure(<<"Failed to execute PHP code: ", promise.error>>, source)
    ELSE IF ~promise.result.success
    THEN [success |-> FALSE, data |-> ParsedData(promise.result.stdout),
          stdout |-> promise.result.stdout,
          stderr |-> promise.result.stderr, code |-> promise.result.code,
          error |-> Some(IF promise.result.stderr # <<>> THEN promise.result.stderr
                         ELSE <<"Command failed with exit code ",
                                CodeText(promise.result.code)>>),
          source |-> source]
    ELSE [success |-> TRUE, data |-> ParsedData(promise.result.stdout),
          stdout |-> promise.result.stdout,
          stderr |-> promise.result.stderr, code |-> promise.result.code,
          error |-> NoText, source |-> source]

-----------------------------------------------------------------------------
(* Operations *)

MaxChunks == 2        \* data events of one stream, both channels together
MaxErrors == 1        \* "error" events of one connection
MaxInvocations == 2   \* invocations of executeSshCommand at the same time

NoCall == [op |-> "none", arg |-> Null, out |-> Returned(Null)]

\* process.argv[2]: absent, or a path and the file it names.
NoArgument == [def |-> FALSE, path |-> <<>>, file |-> MissingFile]

\* The core functions called without main.
NoMain == [pc |-> "none", argv |-> NoArgument, status |-> 0, connects |-> 0]

\* A main that connects the server whatever initializeConfig did.
mainConnectsAnyway(argv, old) ==
    IF ~argv.def \/ argv.path = <<>>
    THEN [pc |-> "exited", status |-> 1, config |-> old, connects |-> 0]
    ELSE [pc |-> "connecting", status |-> 0,
          config |-> initializeConfig(argv.file, old).config, connects |-> 1]

\* index.ts:465-489: main up to its await.  pc is "exited" with the status
\* given to process.exit, or "connecting" when server.connect has been
\* called; connects counts the calls of server.connect.
mainUntilConnect(argv, old) ==
    IF ~argv.def \/ argv.path = <<>>
    THEN [pc |-> "exited", status |-> 1, config |-> old, connects |-> 0]
    ELSE IF ~initializeConfig(argv.file, old).out.ok
    THEN [pc |-> "exited", status |-> 1,
          config |-> initializeConfig(argv.file, old).config, connects |-> 0]
    ELSE [pc |-> "connecting", status |-> 0,
          config |-> initializeConfig(argv.file, old).config, connects |-> 1]

NoPhp ==
    [pc |-> "idle",
     in |-> [domain |-> <<>>, codeOrPath |-> <<>>, type |-> "auto", args |-> <<>>],
     env |-> [file |-> "absent", installed |-> FALSE, lint |-> "valid"],
     source |-> "code", command |-> <<>>, error |-> "none",
     result |-> Failure(<<>>, "code"), sshCalls |-> 0, temp |-> NoTemp, probes |-> 0]

\* A run makes synchronous calls and then one asynchronous call, whose
\* events follow: the synchronous operations read cachedConfig and write
\* nothing an asynchronous call reads.
NothingStarted == ssh = <<>> /\ php.pc = "idle"

\* initializeConfig(configPath), with f the file at configPath.
InitializeConfig(f) ==
    /\ NothingStarted
    /\ cachedConfig' = initializeConfig(f, cachedConfig).config
    /\ call' = [op |-> "initializeConfig", arg |-> f,
                out |-> initializeConfig(f, cachedConfig).out]
    /\ UNCHANGED <<proc, disk, phpAvailable, ssh, php>>

GetSshConfig(d) ==
    /\ NothingStarted
    /\ call' = [op |-> "getSshConfig", arg |-> d, out |-> getSshConfig(cachedConfig, d)]
    /\ cachedConfig' = DocumentAfterResolve(cachedConfig, d)
    /\ UNCHANGED <<proc, disk, phpAvailable, ssh, php>>

GetServerInfo(d) ==
    /\ NothingStarted
    /\ call' = [op |-> "getServerInfo", arg |-> d, out |-> getServerInfo(cachedConfig, d)]
    /\ UNCHANGED <<proc, disk, cachedConfig, phpAvailable, ssh, php>>

GetServerDomains ==
    /\ NothingStarted
    /\ call' = [op |-> "getServerDomains", arg |-> Null,
                out |-> getServerDomains(cachedConfig)]
    /\ UNCHANGED <<proc, disk, cachedConfig, phpAvailable, ssh, php>>

\* searchServers(servers, query, fields), with the list the caller passes.
SearchServers(servers, query, fields) ==
    /\ NothingStarted
    /\ call' = [op |-> "searchServers",
                arg |-> [servers |-> servers, query |-> query, fields |-> fields],
                out |-> searchServers(servers, query, fields)]
    /\ UNCHANGED <<proc, disk, cachedConfig, phpAvailable, ssh, php>>

\* executeSshCommand(domain, command) called by a tool handler.
ExecuteSshCommand(d, command, key) ==
    /\ php.pc = "idle"
    /\ Len(ssh) < MaxInvocations
    /\ ssh' = Append(ssh, StartSsh(cachedConfig, "tool", d, command, key))
    /\ call' = [op |-> "executeSshCommand", arg |-> d, out |-> Returned(Null)]
    /\ cachedConfig' = DocumentAfterResolve(cachedConfig, d)
    /\ UNCHANGED <<proc, disk, phpAvailable, php>>

\* ssh.ts:331 executeWpCommand: it rejects when the profile does not
\* resolve, and returns the promise of executeSshCommand otherwise.
ExecuteWpCommand(d, wpCommand, key) ==
    /\ NothingStarted
    /\ IF getSshConfig(cachedConfig, d).ok
       THEN /\ ssh' = Append(ssh,
                        StartSsh(cachedConfig, "wp", d,
                                 WpCommandLine(getSshConfig(cachedConfig, d).value["wpRootPath"],
                                               wpCommand),
                                 key))
            /\ call' = [op |-> "executeWpCommand",
                        arg |-> [domain |-> d, wpCommand |-> wpCommand],
                        out |-> Returned(Null)]
       ELSE /\ ssh' = ssh
            /\ call' = [op |-> "executeWpCommand",
                        arg |-> [domain |-> d, wpCommand |-> wpCommand],
                        out |-> getSshConfig(cachedConfig, d)]
    /\ cachedConfig' = DocumentAfterResolve(cachedConfig, d)
    /\ UNCHANGED <<proc, disk, phpAvailable, php>>

\* The transport's events of invocation i and the handlers they run.
Ready(i) ==
    /\ ssh[i].transport = "open"
    /\ ssh[i].phase = "connecting"
    /\ ssh[i].errors = 0
    /\ ssh' = [ssh EXCEPT ![i] = OnReady(@)]
    /\ UNCHANGED <<proc, disk, cachedConfig, phpAvailable, call, php>>

ExecFails(i) ==
    /\ ssh[i].transport = "open"
    /\ ssh[i].phase = "execRequested"
    /\ ssh' = [ssh EXCEPT ![i] = OnExecError(@, "exec failed")]
    /\ UNCHANGED <<proc, disk, cachedConfig, phpAvailable, call, php>>

ExecOpens(i) ==
    /\ ssh[i].transport = "open"
    /\ ssh[i].phase = "execRequested"
    /\ ssh' = [ssh EXCEPT ![i] = OnExecStream(@)]
    /\ UNCHANGED <<proc, disk, cachedConfig, phpAvailable, call, php>>

Data(i, chunk) ==
    /\ ssh[i].transport = "open"
    /\ ssh[i].phase = "streaming"
    /\ Len(ssh[i].emittedOut) + Len(ssh[i].emittedErr) < MaxChunks
    /\ ssh' = [[ssh EXCEPT ![OutputVariables(ssh, i)] = OnData(@, chunk)]
                   EXCEPT ![i].emittedOut = Append(@, chunk)]
    /\ UNCHANGED <<proc, disk, cachedConfig, phpAvailable, call, php>>

StderrData(i, chunk) ==
    /\ ssh[i].transport = "open"
    /\ ssh[i].phase = "streaming"
    /\ Len(ssh[i].emittedOut) + Len(ssh[i].emittedErr) < MaxChunks
    /\ ssh' = [[ssh EXCEPT ![OutputVariables(ssh, i)] = OnStderrData(@, chunk)]
                   EXCEPT ![i].emittedErr = Append(@, chunk)]
    /\ UNCHANGED <<proc, disk, cachedConfig, phpAvailable, call, php>>

StreamClose(i, code) ==
    /\ ssh[i].transport = "open"
    /\ ssh[i].phase = "streaming"
    /\ ssh' = [ssh EXCEPT ![i] = [OnStreamClose(ssh[i], code) EXCEPT !.closeCode = code]]
    /\ UNCHANGED <<proc, disk, cachedConfig, phpAvailable, call, php>>

ConnectionError(i) ==
    /\ ssh[i].transport = "open"
    /\ ssh[i].errors < MaxErrors
    /\ ssh' = [ssh EXCEPT ![i] = OnError(@, "connection error")]
    /\ UNCHANGED <<proc, disk, cachedConfig, phpAvailable, call, php>>

\* A connection that closes before it is ready has reported an error.
ConnectionClosed(i) ==
    /\ ssh[i].transport = "open"
    /\ ssh[i].phase # "connecting" \/ ssh[i].errors > 0
    /\ ssh' = [ssh EXCEPT ![i] = OnConnectionClosed(@)]
    /\ UNCHANGED <<proc, disk, cachedConfig, phpAvailable, call, php>>

\* What a call finds on the local machine only where it looks.
Consults(cache, in, env) ==
    LET argsOk == Len(in.args) <= MAX_ARGS /\ TotalArgsLength(in.args) <= MAX_TOTAL_LENGTH
        looksAtFile == argsOk /\ (in.type = "file" \/
                                  (in.type = "auto" /\ looksLikeFilePath(in.codeOrPath)))
        asFile == looksAtFile /\ (in.type = "file" \/ env.file # "absent")
        checks == argsOk /\ (~asFile \/ env.file = "readable")
        probes == checks /\ cache = "unknown"
        lints == checks /\ isPhpAvailable(cache, env.installed) = "yes"
    IN  /\ ~looksAtFile => env.file = "absent"
        /\ ~probes => ~env.installed
        /\ ~lints => env.lint = "valid"

\* executePhpCode(domain, codeOrPath, {type, args}) up to its await; a call
\* starts when no earlier call is waiting for its session.
ExecutePhpCode(in, env, key) ==
    /\ ssh = <<>>
    /\ php.pc # "await"
    /\ Consults(phpAvailable, in, env)
    /\ LET r == PhpBeforeAwait(cachedConfig, phpAvailable, in, env)
       IN  /\ r.kind # "await" => key = "ok"
           /\ phpAvailable' = r.cache
           /\ php' = [pc |-> r.kind, in |-> in, env |-> env, source |-> r.source,
                      command |-> r.command, error |-> r.error, result |-> r.result,
                      sshCalls |-> IF r.kind = "await" THEN 1 ELSE 0,
                      temp |-> r.temp,
                      probes |-> php.probes + (IF r.probed THEN 1 ELSE 0)]
           /\ ssh' = IF r.kind = "await"
                     THEN Append(ssh, StartSsh(cachedConfig, "php", in.domain, r.command, key))
                     ELSE ssh
           /\ cachedConfig' = IF r.kind = "returned" THEN cachedConfig
                              ELSE DocumentAfterResolve(cachedConfig, in.domain)
    /\ call' = [op |-> "executePhpCode", arg |-> in.domain, out |-> Returned(Null)]
    /\ UNCHANGED <<proc, disk>>

\* The await of executePhpCode ends when the promise of its invocation has
\* settled.
PhpSettles ==
    /\ php.pc = "await"
    /\ ssh[Len(ssh)].caller = "php"
    /\ ssh[Len(ssh)].promise.state # "pending"
    /\ php' = [php EXCEPT !.pc = "returned",
                          !.result = PhpAfterAwait(ssh[Len(ssh)].promise, php.source)]
    /\ UNCHANGED <<proc, disk, cachedConfig, phpAvailable, call, ssh>>

-----------------------------------------------------------------------------
(* The configuration store and resolver alone *)

InitConfig ==
    /\ \E g \in GlobalBlocks, p \in ProviderBlocks, hp \in ProviderRefs,
          t \in TargetBlocks : disk = DiskWith(g, p, hp, t)
    /\ cachedConfig = Null
    /\ phpAvailable = "unknown"
    /\ call = NoCall
    /\ ssh = <<>>
    /\ php = NoPhp
    /\ proc = NoMain

NextConfig ==
    \/ \E f \in disk : InitializeConfig(f)
    \/ \E d \in Domains : GetSshConfig(d)
    \/ \E d \in Domains : GetServerInfo(d)
    \/ GetServerDomains

SpecConfig == InitConfig /\ [][NextConfig]_vars

-----------------------------------------------------------------------------
(* The whole core, with one configuration document *)

\* Global {port 22, username a, key k}, provider {username b, port 2200},
\* target Site1 of that provider with {username dep}.
ExecDoc ==
    RawDoc(Some(JObj([port |-> JNum(22), username |-> JStr(<<"a">>),
                      privateKeyPath |-> JStr(<<"k">>)])),
           Some(JObj([username |-> JStr(<<"b">>), port |-> JNum(2200)])),
           Some(JStr(Acme)),
           Some(JObj([username |-> JStr(<<"d", "e", "p">>)])))

ExecDomains == {Site1, NoSuchSite}

Commands == {<<"l", "s">>}

KeyStates == {"ok", "unreadable", "invalid"}

ChunkValues == {<<"1", "\n">>, <<LeadByte>>, <<ContinuationByte>>}

ExitCodes == {ExitCode(0), ExitCode(1), NoExitCode}

AlphaCom == <<"a", "l", "p", "h", "a", ".", "c", "o", "m">>
AlphabetCom == <<"a", "l", "p", "h", "a", "b", "e", "t", ".", "c", "o", "m">>

ListAC ==
    <<[domain |-> <<"a", ".", "c">>, name |-> <<"A">>],
      [domain |-> <<"a", "b", ".", "c">>, name |-> <<"a">>]>>

ListAlpha ==
    <<[domain |-> AlphabetCom, name |-> <<"x">>],
      [domain |-> AlphaCom, name |-> <<"y">>]>>

ListMixedCase ==
    <<[domain |-> <<"B", ".", "c">>, name |-> <<"n">>],
      [domain |-> <<"a", ".", "c">>, name |-> <<"B", ".", "C">>]>>

\* The searches of the model: <<servers, query, fields>>.
SearchCases ==
    ({ListAC} \X {<<"a">>, <<" ", "A", ".", "C">>, <<"*", "c">>, <<"z">>}
              \X {<<"host", "name">>})
    \cup ({ListAlpha} \X {<<"a", "l", "p", "h", "a">>}
                     \X {<<"host", "name">>, <<"name", "host">>})
    \cup ({ListMixedCase} \X {<<"*", "c">>, <<"%", ".", "C", " ">>, <<>>}
                         \X {<<"host", "name">>, <<"host">>, <<"name">>})

Repeat(a, n) == [i \in 1..n |-> a]

ArgLists ==
    { <<>>,
      <<<<"i", "t", "'", "s">>, <<>>>>,
      Repeat(<<"a">>, MAX_ARGS),
      Repeat(<<"a">>, MAX_ARGS + 1),
      <<<<"x*32767", "a">>>>,
      <<<<"x*32767", "a">>, <<"b">>>>,
      <<<<"E_ACUTE*16385">>>> }

CodeOrPaths ==
    { <<"e", "c", "h", "o", " ", "1", ";">>,
      <<"<", "?", "p", "h", "p", " ", "e", "c", "h", "o", " ", "1", ";", " ", "?", ">">>,
      <<"/", "a", ".", "p", "h", "p">> }

RelativePath == <<"a", ".", "p", "h", "p">>

\* The inputs of executePhpCode: every argument list with the plain inline
\* code, every code or path with every type, with and without arguments, and
\* a relative path of which the type is to be found out.
PhpInputs ==
    [domain : ExecDomains, codeOrPath : {<<"e", "c", "h", "o", " ", "1", ";">>},
     type : {"auto"}, args : ArgLists]
        \cup [domain : ExecDomains, codeOrPath : CodeOrPaths,
              type : {"auto", "file", "code"},
              args : {<<>>, <<<<"i", "t", "'", "s">>, <<>>>>}]
        \cup [domain : ExecDomains, codeOrPath : {RelativePath},
              type : {"auto"}, args : {<<>>}]

PhpEnvs ==
    [file : {"absent", "unreadable", "readable"}, installed : BOOLEAN,
     lint : {"valid", "mkdtempFails", "writeFails",
             "errorLine", "errorRaw", "errorBlank", "errorSilent"}]

InitExec ==
    /\ disk = {MissingFile, JsonFile(ExecDoc)}
    /\ cachedConfig = Null
    /\ phpAvailable = "unknown"
    /\ call = NoCall
    /\ ssh = <<>>
    /\ php = NoPhp
    /\ proc = NoMain

NextExec ==
    \/ \E f \in disk : InitializeConfig(f)
    \/ \E d \in ExecDomains : GetSshConfig(d)
    \/ \E d \in ExecDomains : GetServerInfo(d)
    \/ GetServerDomains
    \/ \E c \in SearchCases : SearchServers(c[1], c[2], c[3])
    \/ NothingStarted /\ \E d \in ExecDomains, c \in Commands, k \in KeyStates :
                            ExecuteSshCommand(d, c, k)
    \/ \E d \in ExecDomains, c \in Commands, k \in KeyStates : ExecuteWpCommand(d, c, k)
    \/ NothingStarted /\ \E in \in PhpInputs, env \in PhpEnvs, k \in KeyStates :
                            ExecutePhpCode(in, env, k)
    \/ PhpSettles
    \/ \E i \in 1..Len(ssh) : Ready(i)
    \/ \E i \in 1..Len(ssh) : ExecFails(i)
    \/ \E i \in 1..Len(ssh) : ExecOpens(i)
    \/ \E i \in 1..Len(ssh), c \in ChunkValues : Data(i, c)
    \/ \E i \in 1..Len(ssh), c \in ChunkValues : StderrData(i, c)
    \/ \E i \in 1..Len(ssh), code \in ExitCodes : StreamClose(i, code)
    \/ \E i \in 1..Len(ssh) : ConnectionError(i)
    \/ \E i \in 1..Len(ssh) : ConnectionClosed(i)

SpecExec == InitExec /\ [][NextExec]_vars

-----------------------------------------------------------------------------
(* Invocations of executeSshCommand that run at the same time, after the
   configuration has been loaded.  The remote side of invocation i sends
   chunks and an exit code that name i. *)

OwnChunk(i) == <<ToString(i)>>

OwnExitCode(i) == ExitCode(i)

InitConcurrent ==
    /\ disk = {JsonFile(ExecDoc)}
    /\ cachedConfig = initializeConfig(JsonFile(ExecDoc), Null).config
    /\ phpAvailable = "unknown"
    /\ call = NoCall
    /\ ssh = <<>>
    /\ php = NoPhp
    /\ proc = NoMain

NextConcurrent ==
    \/ \E c \in Commands : ExecuteSshCommand(Site1, c, "ok")
    \/ \E i \in 1..Len(ssh) : Ready(i)
    \/ \E i \in 1..Len(ssh) : ExecOpens(i)
    \/ \E i \in 1..Len(ssh) : Data(i, OwnChunk(i))
    \/ \E i \in 1..Len(ssh) : StderrData(i, OwnChunk(i))
    \/ \E i \in 1..Len(ssh) : StreamClose(i, OwnExitCode(i))
    \/ \E i \in 1..Len(ssh) : ConnectionError(i)

SpecConcurrent == InitConcurrent /\ [][NextConcurrent]_vars

-----------------------------------------------------------------------------
(* The quoting of arguments and the composite command, read and run by the
   remote shell: one argument or one command in a run *)

MaxArgLen == 3

QuoteAlphabet == {"a", "'", " ", "\"", "\\", "\n", "$"}

RECURSIVE TextsUpTo(_, _)
TextsUpTo(alphabet, n) ==
    IF n = 0 THEN {<<>>}
    ELSE TextsUpTo(alphabet, n - 1)
            \cup {Append(t, c) : t \in TextsUpTo(alphabet, n - 1), c \in alphabet}

ItsATest == <<"i", "t", "'", "s", " ", "a", " ", "t", "e", "s", "t">>

QuoteArgs == TextsUpTo(QuoteAlphabet, MaxArgLen) \cup {ItsATest, <<"a", "=", "/", "-">>}

MarkerThenExit == <<"e", "c", "h", "o", ";", "\n">> \o HeredocMarker \o <<"\n", "e", "x", "i", "t">>

MarkerThenLine == HeredocMarker \o <<"\n", "l", "s">>

RemoteCodes ==
    { <<"e", "c", "h", "o", " ", "1", ";">>,
      <<"<", "?", "p", "h", "p", " ", "e", "c", "h", "o", " ", "1", ";", " ", "?", ">">>,
      <<"a", ";", "\n", "e", "x", "i", "t", "\n", "b", ";", "\n">>,
      <<>>,
      <<"x">> \o HeredocMarker,
      MarkerThenExit,
      MarkerThenLine }

RemoteArgs == {<<>>, <<ItsATest>>, <<<<"a", " ", "b">>, <<>>, <<"$", "a">>>>}

RemoteEnvs == [cd : BOOLEAN, write : BOOLEAN, wp : {0, 2}]

\* shellQuote(arg), and the shell reading its result.
ShellQuote(arg) ==
    /\ call.op = "none"
    /\ call' = [op |-> "shellQuote", arg |-> arg, out |-> Returned(shellQuote(arg))]
    /\ UNCHANGED <<proc, disk, cachedConfig, phpAvailable, ssh, php>>

\* The composite command that executePhpCode builds for inline code and
\* arguments (ssh.ts:554, 597-599, 631-639), run by the remote shell.
RunComposite(code, args, env) ==
    LET phpCode == StripClosingTag(StripOpeningTag(code))
    IN  /\ call.op = "none"
        /\ call' = [op |-> "remote",
                    arg |-> [phpCode |-> phpCode, args |-> args, env |-> env],
                    out |-> Returned(RemoteRun(CompositeCommand(<<"/", "w">>, phpCode,
                                                                EscapedArgs(args)), env))]
        /\ UNCHANGED <<proc, disk, cachedConfig, phpAvailable, ssh, php>>

InitShell == InitExec

NextShell ==
    \/ \E arg \in QuoteArgs : ShellQuote(arg)
    \/ \E code \in RemoteCodes, args \in RemoteArgs, env \in RemoteEnvs :
          RunComposite(code, args, env)

SpecShell == InitShell /\ [][NextShell]_vars

-----------------------------------------------------------------------------
(* The process from its start: main, and the resolver's calls that the
   connected server makes for its tools *)

ConfigPath == <<"c">>

Arguments ==
    {NoArgument, [def |-> TRUE, path |-> <<>>, file |-> MissingFile]}
        \cup {[def |-> TRUE, path |-> ConfigPath, file |-> f] : f \in disk}

\* index.ts:465-489, 496: main is called with the process's argument.
Main(argv) ==
    /\ proc.pc = "start"
    /\ proc' = [pc |-> mainUntilConnect(argv, cachedConfig).pc, argv |-> argv,
                status |-> mainUntilConnect(argv, cachedConfig).status,
                connects |-> mainUntilConnect(argv, cachedConfig).connects]
    /\ cachedConfig' = mainUntilConnect(argv, cachedConfig).config
    /\ call' = [op |-> "main", arg |-> Null, out |-> Returned(Null)]
    /\ UNCHANGED <<disk, phpAvailable, ssh, php>>

\* index.ts:489-492: server.connect resolves and main ends.
ServerConnected ==
    /\ proc.pc = "connecting"
    /\ proc' = [proc EXCEPT !.pc = "running"]
    /\ UNCHANGED <<disk, cachedConfig, phpAvailable, call, ssh, php>>

\* index.ts:496-499: server.connect rejects and the catch of main() ends the
\* process.
ServerConnectFails ==
    /\ proc.pc = "connecting"
    /\ proc' = [proc EXCEPT !.pc = "exited", !.status = 1]
    /\ UNCHANGED <<disk, cachedConfig, phpAvailable, call, ssh, php>>

InitMain ==
    /\ \E g \in GlobalBlocks, p \in ProviderBlocks, hp \in ProviderRefs,
          t \in TargetBlocks : disk = DiskWith(g, p, hp, t)
    /\ cachedConfig = Null
    /\ phpAvailable = "unknown"
    /\ call = NoCall
    /\ ssh = <<>>
    /\ php = NoPhp
    /\ proc = [pc |-> "start", argv |-> NoArgument, status |-> 0, connects |-> 0]

NextMain ==
    \/ \E argv \in Arguments : Main(argv)
    \/ ServerConnected
    \/ ServerConnectFails
    \/ proc.pc = "running" /\ GetServerDomains
    \/ proc.pc = "running" /\ \E d \in {Site1, NoSuchSite} : GetServerInfo(d)

SpecMain == InitMain /\ [][NextMain]_vars

-----------------------------------------------------------------------------
(* Calls of executePhpCode one after another in one process, before a
   configuration is loaded: each ends at or before the resolver's error *)

ProbeInputs ==
    [domain : ExecDomains, codeOrPath : CodeOrPaths,
     type : {"auto", "file", "code"}, args : {<<>>}]

InitProbe == InitExec

NextProbe ==
    \E in \in ProbeInputs, env \in PhpEnvs : ExecutePhpCode(in, env, "ok")

SpecProbe == InitProbe /\ [][NextProbe]_vars

-----------------------------------------------------------------------------
(* Layered merge (C1) *)

\* The three blocks of a target that is a key of the document's servers.
GlobalLayer(cfg) == OptProp(cfg, "ssh")
TargetLayer(cfg, d) == OptProp(cfg["servers"][d], "ssh")

\* The block of the provider the target names, when the name is a key of
\* hostingProviders.
ProviderLayer(cfg, d) ==
    IF /\ "hostingProvider" \in DOMAIN cfg["servers"][d]
       /\ "hostingProviders" \in DOMAIN cfg
       /\ cfg["servers"][d]["hostingProvider"] \in DOMAIN cfg["hostingProviders"]
    THEN OptProp(cfg["hostingProviders"][cfg["servers"][d]["hostingProvider"]], "ssh")
    ELSE None

\* The same, for a provider name that is not the empty string.
NamedProviderLayer(cfg, d) ==
    IF TruthyStr(cfg["servers"][d], "hostingProvider")
    THEN ProviderLayer(cfg, d)
    ELSE None

Defines(layer, f) == layer.def /\ f \in DOMAIN layer.v

\* The value of field f in the highest layer that defines it.
Highest(g, p, t, f) ==
    IF Defines(t, f) THEN Some(t.v[f])
    ELSE IF Defines(p, f) THEN Some(p.v[f])
    ELSE IF Defines(g, f) THEN Some(g.v[f])
    ELSE [def |-> FALSE, v |-> 0]

\* What a getSshConfig call on a target of the document shows of the merge
\* of layers g, p and t: which required field it reports missing, or the
\* fields of the profile it returns.
ShowsMergeOf(g, p, t, host, out) ==
    LET user == Highest(g, p, t, "username")
        key == Highest(g, p, t, "privateKeyPath")
        port == Highest(g, p, t, "port")
        pass == Highest(g, p, t, "passphrase")
        root == Highest(g, p, t, "wpRootPath")
    IN  IF ~user.def \/ user.v = <<>>
        THEN ~out.ok /\ out.error = "SSH username not configured"
        ELSE IF ~key.def \/ key.v = <<>>
        THEN ~out.ok /\ out.error = "SSH private key path not configured"
        ELSE /\ out.ok
             /\ out.value["username"] = user.v
             /\ out.value["privateKeyPath"] = key.v
             /\ out.value["port"] = (IF port.def THEN port.v ELSE 22)
             /\ ("passphrase" \in DOMAIN out.value) = pass.def
             /\ pass.def => out.value["passphrase"] = pass.v
             /\ out.value["wpRootPath"] =
                    (IF root.def /\ root.v # <<>>
                     THEN resolveTemplateVars(root.v, user.v, host)
                     ELSE HomePrefix \o user.v \o PublicHtmlSuffix)

GetSshConfigOnTarget ==
    /\ call.op = "getSshConfig"
    /\ cachedConfig # Null
    /\ call.arg \in DOMAIN cachedConfig["servers"]

\* C1 as stated: getSshConfig(target) shows the field-by-field merge of the
\* global block, the block of the provider the target names and the target's
\* own block, the highest layer that defines a field giving its value.
C1_MergeOfAllLayers ==
    GetSshConfigOnTarget =>
        ShowsMergeOf(GlobalLayer(cachedConfig),
                     ProviderLayer(cachedConfig, call.arg),
                     TargetLayer(cachedConfig, call.arg),
                     cachedConfig["servers"][call.arg]["host"], call.out)

\* C1 as amended: the same, with the provider layer counted only when the
\* target names its provider by a non-empty string.
C1_MergeByPrecedence ==
    GetSshConfigOnTarget =>
        ShowsMergeOf(GlobalLayer(cachedConfig),
                     NamedProviderLayer(cachedConfig, call.arg),
                     TargetLayer(cachedConfig, call.arg),
                     cachedConfig["servers"][call.arg]["host"], call.out)

\* The three layers each give one field of the returned profile: username
\* from the target over provider and global, port from the provider over
\* global, the key path from global.
C1_Witness ==
    /\ GetSshConfigOnTarget
    /\ call.arg = Site1
    /\ call.out.ok
    /\ Defines(GlobalLayer(cachedConfig), "username")
    /\ Defines(NamedProviderLayer(cachedConfig, Site1), "username")
    /\ Defines(TargetLayer(cachedConfig, Site1), "username")
    /\ Defines(GlobalLayer(cachedConfig), "port")
    /\ call.out.value["username"] = <<"c">>
    /\ call.out.value["port"] = 2222
    /\ call.out.value["privateKeyPath"] = <<"k">>

-----------------------------------------------------------------------------
(* Initialization (C2) *)

Accepted(f) == f.st = "json" /\ ServersConfigSchema(f.v)

\* C2: a failing initializeConfig leaves the active document as it was, and
\* a succeeding one makes the file's document, and nothing else, the active
\* document; no other step is constrained here.
C2_LastSuccessfulDocument ==
    [][call'.op = "initializeConfig" =>
          IF Accepted(call'.arg)
          THEN /\ call'.out.ok
               /\ cachedConfig' = ServersConfigData(call'.arg.v)
          ELSE /\ ~call'.out.ok
               /\ cachedConfig' = cachedConfig]_vars

\* A call failed after an earlier one had succeeded, and a document is
\* still active.
C2_Witness ==
    /\ call.op = "initializeConfig"
    /\ ~call.out.ok
    /\ cachedConfig # Null

-----------------------------------------------------------------------------
(* Use before initialization (C3) *)

NotInitialized == "Configuration not initialized"

LintErrors == {"errorLine", "errorRaw", "errorBlank", "errorSilent"}

\* The validations of executePhpCode that end a call before the profile is
\* resolved, from the call's input and what it finds locally.
ArgumentCapExceeded(in) ==
    Len(in.args) > MAX_ARGS \/ TotalArgsLength(in.args) > MAX_TOTAL_LENGTH

TreatedAsFile(in, env) ==
    \/ in.type = "file"
    \/ in.type = "auto" /\ looksLikeFilePath(in.codeOrPath) /\ env.file # "absent"

ValidationFails(in, env) ==
    \/ ArgumentCapExceeded(in)
    \/ TreatedAsFile(in, env) /\ env.file # "readable"
    \/ env.lint \in LintErrors

NoRemoteContact == \A i \in 1..Len(ssh) : ssh[i].connect = <<>>

\* C3 as stated: before any successful initializeConfig every operation
\* fails with the "not initialized" error, without remote contact.
C3_AllFailNotInitialized ==
    cachedConfig = Null =>
        /\ NoRemoteContact
        /\ call.op \in {"getSshConfig", "getServerDomains", "getServerInfo",
                        "searchServers", "executeWpCommand"}
              => call.out = Threw(NotInitialized)
        /\ call.op = "executeSshCommand" => ssh[1].promise = Rejected(NotInitialized)
        /\ call.op = "executePhpCode" => php.pc = "threw" /\ php.error = NotInitialized

\* C3 as amended: before any successful initializeConfig, getSshConfig,
\* getServerDomains, getServerInfo, executeSshCommand and executeWpCommand
\* fail with the "not initialized" error; executePhpCode fails with it too
\* unless one of its validations fails, and then it returns that failure;
\* none of them contacts a target; searchServers returns the matches among
\* the servers it is given.
C3_NotInitialized ==
    cachedConfig = Null =>
        /\ NoRemoteContact
        /\ call.op \in {"getSshConfig", "getServerDomains", "getServerInfo",
                        "executeWpCommand"}
              => call.out = Threw(NotInitialized)
        /\ call.op = "executeSshCommand" => ssh[1].promise = Rejected(NotInitialized)
        /\ call.op = "executePhpCode" =>
              IF ValidationFails(php.in, php.env)
              THEN php.pc = "returned" /\ ~php.result.success
              ELSE php.pc = "threw" /\ php.error = NotInitialized
        /\ call.op = "searchServers" =>
              call.out = searchServers(call.arg.servers, call.arg.query, call.arg.fields)

\* executePhpCode was called before initialization with input that passes
\* the validations, and threw.
C3_Witness ==
    /\ cachedConfig = Null
    /\ call.op = "executePhpCode"
    /\ php.pc = "threw"
    /\ php.error = NotInitialized

-----------------------------------------------------------------------------
(* executePhpCode: how a call ends (C4, C5, C6, C7) *)

\* C4: executePhpCode never ends by throwing, whatever the target; a failure
\* to read the key or of the connection is returned as a result with
\* success = false and code = -1.
C4_NeverThrows ==
    /\ php.pc # "threw"
    /\ (php.pc = "returned" /\ Len(ssh) = 1 /\ ssh[1].promise.state = "rejected") =>
          ~php.result.success /\ php.result.code = ExitCode(-1)

\* C5: a returned result with success = false carries a non-empty error; when
\* the remote command ended with a non-zero exit code the error is the
\* captured stderr if that is not empty, and the message naming the exit code
\* otherwise.
C5_FailureHasMessage ==
    (php.pc = "returned" /\ ~php.result.success) =>
        /\ php.result.error.def
        /\ php.result.error.v # <<>>
        /\ (Len(ssh) = 1 /\ ssh[1].promise.state = "resolved") =>
              php.result.error.v =
                 (IF ssh[1].promise.result.stderr # <<>>
                  THEN ssh[1].promise.result.stderr
                  ELSE <<"Command failed with exit code ",
                         CodeText(ssh[1].promise.result.code)>>)

\* The remote command ended with exit code 1 and nothing on stderr.
C5_Witness ==
    /\ php.pc = "returned"
    /\ ~php.result.success
    /\ Len(ssh) = 1
    /\ ssh[1].promise.state = "resolved"
    /\ ssh[1].promise.result.code = ExitCode(1)
    /\ ssh[1].promise.result.stderr = <<>>

RECURSIVE TotalArgsBytes(_)
TotalArgsBytes(args) ==
    IF args = <<>> THEN 0 ELSE ByteLength(Head(args)) + TotalArgsBytes(Tail(args))

RejectedForArguments ==
    /\ php.pc = "returned"
    /\ ~php.result.success
    /\ Head(php.result.error.v) \in {"Too many arguments: ", "Arguments too long: "}

\* C6: a call is rejected for its arguments exactly when there are more than
\* 50 of them or their summed byte length exceeds 32768, and then before any
\* session is opened.
C6_ArgumentCaps ==
    php.pc # "idle" =>
        /\ RejectedForArguments <=>
              (Len(php.in.args) > 50 \/ TotalArgsBytes(php.in.args) > 32768)
        /\ RejectedForArguments => ssh = <<>>

\* C7: a call whose validation fails returns a failure without any
\* executeSshCommand invocation; a call whose validations pass and whose
\* profile resolves has made exactly one, with its composite command, and
\* that invocation executes it at most once.
C7_OneRemoteCommand ==
    php.pc # "idle" =>
        /\ ValidationFails(php.in, php.env) =>
              /\ php.pc = "returned"
              /\ ~php.result.success
              /\ php.sshCalls = 0
              /\ ssh = <<>>
        /\ (~ValidationFails(php.in, php.env)
                /\ getSshConfig(cachedConfig, php.in.domain).ok) =>
              /\ php.sshCalls = 1
              /\ Len(ssh) = 1
              /\ ssh[1].caller = "php"
              /\ ssh[1].command = php.command
              /\ Len(ssh[1].execs) <= 1

\* A call whose validations passed returned the result of its one remote
\* command.
C7_Witness ==
    /\ php.pc = "returned"
    /\ php.result.success
    /\ Len(ssh) = 1
    /\ ssh[1].execs = <<php.command>>

-----------------------------------------------------------------------------
(* executeSshCommand: session and promise (C8, C9, C10) *)

Settled(i) == ssh[i].promise.state # "pending"

\* C8: an invocation that opened a session has called conn.end by the time
\* its promise is settled.
C8_EndedWhenSettled ==
    \A i \in 1..Len(ssh) :
        (ssh[i].transport # "none" /\ Settled(i)) => ssh[i].ended >= 1

\* C9, for a finite run: once the connection of an invocation has closed, so
\* that no event can follow, its promise is settled.
C9_SettledWhenConnectionOver ==
    \A i \in 1..Len(ssh) : ssh[i].transport = "closed" => Settled(i)

\* C10: an exec error, or a connection error before the stream has closed,
\* leaves the call rejected, whatever follows; the call is resolved only by
\* the close of the stream with no such error before it.
C10_FailureRejects ==
    \A i \in 1..Len(ssh) :
        /\ (ssh[i].errorFirst \/ ssh[i].phase = "execFailed") =>
              ssh[i].promise.state = "rejected"
        /\ ssh[i].promise.state = "resolved" =>
              ssh[i].phase = "streamClosed" /\ ~ssh[i].errorFirst

\* An error came after output had been received; the stream closed later,
\* and the call is rejected.
C10_Witness ==
    /\ Len(ssh) = 1
    /\ ssh[1].errorFirst
    /\ ssh[1].stdout # <<>>
    /\ ssh[1].phase = "streamClosed"
    /\ ssh[1].promise.state = "rejected"

-----------------------------------------------------------------------------
(* executeSshCommand: the result and the session (C11, C12) *)

RECURSIVE Flatten(_)
Flatten(chunks) ==
    IF chunks = <<>> THEN <<>> ELSE Head(chunks) \o Flatten(Tail(chunks))

\* C11: the result of a resolved call has as stdout the text of all the bytes
\* sent on the output stream, in order, as stderr that of the bytes sent on
\* the error stream, as code the exit code of the close event, and success
\* exactly when the code is 0.
C11_ResultIsWhatWasSent ==
    \A i \in 1..Len(ssh) :
        ssh[i].promise.state = "resolved" =>
            /\ ssh[i].promise.result.stdout = BufferToString(Flatten(ssh[i].emittedOut))
            /\ ssh[i].promise.result.stderr = BufferToString(Flatten(ssh[i].emittedErr))
            /\ ssh[i].promise.result.code = ssh[i].closeCode
            /\ ssh[i].promise.result.success <=>
                  (ssh[i].closeCode.def /\ ssh[i].closeCode.v = 0)

\* C12: an invocation connects at most once, with the host, port and username
\* of the profile of its target (for Site1: its host, the provider's port
\* 2200 and its own username dep), executes at most one command, its own,
\* and does neither again after a failure.
C12_OneSessionOneCommand ==
    \A i \in 1..Len(ssh) :
        /\ Len(ssh[i].connect) <= 1
        /\ Len(ssh[i].execs) <= 1
        /\ \A j \in 1..Len(ssh[i].execs) : ssh[i].execs[j] = ssh[i].command
        /\ ssh[i].execs # <<>> => ssh[i].connect # <<>>
        /\ ssh[i].connect # <<>> =>
              LET profile == getSshConfig(cachedConfig, ssh[i].domain).value
                  options == ssh[i].connect[1]
              IN  /\ options["host"] = profile["host"]
                  /\ options["port"] = profile["port"]
                  /\ options["username"] = profile["username"]
                  /\ ssh[i].domain = Site1 =>
                        /\ options["host"] = Host1
                        /\ options["port"] = 2200
                        /\ options["username"] = <<"d", "e", "p">>

\* The command was executed in a session to Site1, a connection error
\* followed, and nothing was done again.
C12_Witness ==
    /\ Len(ssh) = 1
    /\ ssh[1].domain = Site1
    /\ ssh[1].errors >= 1
    /\ ssh[1].promise.state = "rejected"
    /\ Len(ssh[1].connect) = 1
    /\ ssh[1].connect[1]["port"] = 2200
    /\ ssh[1].execs = <<ssh[1].command>>
    /\ ssh[1].transport = "closed"

-----------------------------------------------------------------------------
(* Resolution errors (C13, C14) *)

\* The "not found" failure of the resolver (ssh.ts:131, 186).
NotFound(out) == ~out.ok /\ out.error = "Server not found"

\* The record of target d names a provider that is not a key of the
\* document's hostingProviders.
DanglingProvider(cfg, d) ==
    /\ "hostingProvider" \in DOMAIN cfg["servers"][d]
    /\ \/ "hostingProviders" \notin DOMAIN cfg
       \/ cfg["servers"][d]["hostingProvider"] \notin DOMAIN cfg["hostingProviders"]

\* C13: getSshConfig fails for a target whose record names a provider that
\* the document does not have (with "not found"; any failure is accepted
\* here).
C13_DanglingProviderNotFound ==
    (/\ call.op = "getSshConfig"
     /\ cachedConfig # Null
     /\ call.arg \in DOMAIN cachedConfig["servers"]
     /\ DanglingProvider(cachedConfig, call.arg))
        => ~call.out.ok

\* C14: getSshConfig(id) and getServerInfo(id) fail with "not found" exactly
\* when id is not a key of the servers of the active document.
C14_NotFoundIffNoSuchKey ==
    (call.op \in {"getSshConfig", "getServerInfo"} /\ cachedConfig # Null) =>
        (NotFound(call.out) <=> call.arg \notin DOMAIN cachedConfig["servers"])

-----------------------------------------------------------------------------
(* The resolved profile (C15, C16) *)

MergedField(f) ==
    Highest(GlobalLayer(cachedConfig), NamedProviderLayer(cachedConfig, call.arg),
            TargetLayer(cachedConfig, call.arg), f)

ProfileFields == {"host", "port", "username", "privateKeyPath", "wpRootPath"}

CompleteProfile(out) ==
    /\ out.ok
    /\ ProfileFields \subseteq DOMAIN out.value
    /\ ~MergedField("port").def => out.value["port"] = 22

\* C15 as stated: getSshConfig(target) fails when the merge has no username
\* or no privateKeyPath, and otherwise returns a profile with host, port,
\* username, privateKeyPath and wpRootPath, the port being 22 when no layer
\* defines one.
C15_AbsentFieldFails ==
    GetSshConfigOnTarget =>
        IF ~MergedField("username").def \/ ~MergedField("privateKeyPath").def
        THEN ~call.out.ok
        ELSE CompleteProfile(call.out)

Missing(field) == ~field.def \/ field.v = <<>>

\* C15 as amended: the same, with an empty username or privateKeyPath
\* counted as a missing one.
C15_MissingFieldFails ==
    GetSshConfigOnTarget =>
        IF Missing(MergedField("username"))
        THEN ~call.out.ok /\ call.out.error = "SSH username not configured"
        ELSE IF Missing(MergedField("privateKeyPath"))
        THEN ~call.out.ok /\ call.out.error = "SSH private key path not configured"
        ELSE CompleteProfile(call.out)

\* A profile was returned with the default port: username and key path are
\* there after the merge and no layer gives a port.
C15_Witness ==
    /\ GetSshConfigOnTarget
    /\ call.arg = Site1
    /\ call.out.ok
    /\ ~MergedField("port").def
    /\ call.out.value["port"] = 22

\* The template with each token replaced by its value in one pass.
RECURSIVE Substitute(_, _, _)
Substitute(template, username, host) ==
    IF template = <<>> THEN <<>>
    ELSE IF StartsWith(template, UsernameToken)
    THEN username \o Substitute(SubSeq(template, Len(UsernameToken) + 1, Len(template)),
                                username, host)
    ELSE IF StartsWith(template, HostToken)
    THEN host \o Substitute(SubSeq(template, Len(HostToken) + 1, Len(template)),
                            username, host)
    ELSE <<Head(template)>> \o Substitute(Tail(template), username, host)

\* C16: the wpRootPath of a returned profile is the merged template with
\* {username} and {host} replaced by the merged username and the target's
\* host and nothing else changed, and /home/<username>/public_html when
\* there is no template (an empty one counting as none).
C16_TemplateSubstituted ==
    (GetSshConfigOnTarget /\ call.out.ok) =>
        call.out.value["wpRootPath"] =
            (IF Missing(MergedField("wpRootPath"))
             THEN HomePrefix \o MergedField("username").v \o PublicHtmlSuffix
             ELSE Substitute(MergedField("wpRootPath").v, MergedField("username").v,
                             cachedConfig["servers"][call.arg]["host"]))

-----------------------------------------------------------------------------
(* The active document is written by initializeConfig only (C17) *)

\* C17: a step that changes the active document is a successful
\* initializeConfig; no call of another operation, and no event of a
\* session, changes it.
C17_OnlyInitializeWrites ==
    [][cachedConfig' # cachedConfig =>
          /\ call'.op = "initializeConfig"
          /\ call'.out.ok
          /\ cachedConfig' = ServersConfigData(call'.arg.v)]_vars

\* An executePhpCode call has resolved a profile, run its command and
\* returned, and the document is the one that was loaded.
C17_Witness ==
    /\ call.op = "executePhpCode"
    /\ php.pc = "returned"
    /\ php.result.success
    /\ cachedConfig = ServersConfigData(ExecDoc)

-----------------------------------------------------------------------------
(* Search (C18, C19) *)

\* Comparison of two texts by the code units of their characters.
CodeUnitOrder == <<"-", ".">> \o Digits \o UpperCase \o LowerCase
CodeUnitRank(c) == CHOOSE i \in 1..Len(CodeUnitOrder) : CodeUnitOrder[i] = c

RECURSIVE CodeUnitCompare(_, _)
CodeUnitCompare(a, b) ==
    IF a = <<>> /\ b = <<>> THEN 0
    ELSE IF a = <<>> THEN -1
    ELSE IF b = <<>> THEN 1
    ELSE IF CodeUnitRank(Head(a)) < CodeUnitRank(Head(b)) THEN -1
    ELSE IF CodeUnitRank(Head(a)) > CodeUnitRank(Head(b)) THEN 1
    ELSE CodeUnitCompare(Tail(a), Tail(b))

\* Entry a may stand before entry b, c being the comparison of their
\* identifiers.
InOrder(a, b, c) ==
    \/ a.score > b.score
    \/ /\ a.score = b.score
       /\ \/ a.matchedField = "host" /\ b.matchedField = "name"
          \/ a.matchedField = b.matchedField /\ c <= 0

AlphaBeforeAlphabet(entries) ==
    \A i, j \in 1..Len(entries) :
        (/\ entries[i].domain = AlphaCom
         /\ entries[j].domain = AlphabetCom
         /\ entries[i].matchedField = entries[j].matchedField
         /\ entries[i].score = entries[j].score) => i < j

\* C18 as stated: the list is sorted by score descending, then host matches
\* before name matches, then by identifier ascending, character by
\* character; alpha.com stands before alphabet.com.
C18_SortedByIdentifier ==
    call.op = "searchServers" =>
        /\ \A i, j \in 1..Len(call.out.value) :
              i < j => InOrder(call.out.value[i], call.out.value[j],
                               CodeUnitCompare(call.out.value[i].domain,
                                               call.out.value[j].domain))
        /\ AlphaBeforeAlphabet(call.out.value)

\* C18 as amended: the same, with the identifiers compared by localeCompare,
\* that is in the collation order of the locale, where letters compare
\* without case first and lower case stands before upper case.
C18_SortedByCollation ==
    call.op = "searchServers" =>
        /\ \A i, j \in 1..Len(call.out.value) :
              i < j => InOrder(call.out.value[i], call.out.value[j],
                               LocaleCompare(call.out.value[i].domain,
                                             call.out.value[j].domain))
        /\ AlphaBeforeAlphabet(call.out.value)

\* The list given had alphabet.com first; the result has alpha.com first.
C18_Witness ==
    /\ call.op = "searchServers"
    /\ call.arg.servers[1].domain = AlphabetCom
    /\ Len(call.out.value) = 2
    /\ call.out.value[1].domain = AlphaCom
    /\ call.out.value[2].domain = AlphabetCom

NormalizedQuery(query) == Trim(ToLowerCase(query))

SuffixMode(query) ==
    NormalizedQuery(query) # <<>> /\ Head(NormalizedQuery(query)) \in {"*", "%"}

Needle(query) ==
    IF SuffixMode(query) THEN Tail(NormalizedQuery(query)) ELSE NormalizedQuery(query)

\* The match the claim gives to a target and a field.
ExpectedMatch(server, field, query) ==
    LET value == ToLowerCase(IF field = "host" THEN server.domain ELSE server.name)
    IN  IF value = Needle(query) THEN "exact"
        ELSE IF ~SuffixMode(query) /\ StartsWith(value, Needle(query)) THEN "prefix"
        ELSE IF SuffixMode(query) /\ EndsWith(value, Needle(query)) THEN "suffix"
        ELSE "none"

EntriesFor(entries, server, field) ==
    {i \in 1..Len(entries) : /\ entries[i].domain = server.domain
                             /\ entries[i].name = server.name
                             /\ entries[i].matchedField = field}

-----------------------------------------------------------------------------
(* The list of identifiers (C20) *)

\* C20: getServerDomains returns the identifiers of the active document in
\* the order in which the document's file gives them.
C20_DocumentOrder ==
    (call.op = "getServerDomains" /\ call.out.ok) =>
        \A f \in disk :
            (Accepted(f) /\ ServersConfigData(f.v) = cachedConfig) =>
                call.out.value = f.v.v["servers"].keys

-----------------------------------------------------------------------------
(* C23: the files of the syntax check *)

-----------------------------------------------------------------------------
(* C24: file or inline code *)

ArgumentsAccepted ==
    Len(php.in.args) <= MAX_ARGS /\ TotalArgsLength(php.in.args) <= MAX_TOTAL_LENGTH

\* Absolute, starting with ./ or ../, starting with a drive letter, or ending
\* in .php.
LooksLikePath(text) ==
    LET t == Trim(text)
    IN  \/ StartsWith(t, <<"/">>)
        \/ StartsWith(t, <<".", "/">>)
        \/ StartsWith(t, <<".", ".", "/">>)
        \/ Len(t) >= 3 /\ (IsUpper(t[1]) \/ IsLower(t[1])) /\ t[2] = ":" /\ t[3] \in {"\\", "/"}
        \/ EndsWith(t, <<".", "p", "h", "p">>)

ReadAsFile ==
    \/ php.in.type = "file"
    \/ /\ php.in.type = "auto"
       /\ LooksLikePath(php.in.codeOrPath)
       /\ php.env.file # "absent"

\* C24: executePhpCode treats its input as a file exactly when the type is
\* file, or the type is auto and the input looks like a path and that path
\* exists; with the type file and a path that does not exist it returns the
\* "file not found" failure and starts no session; in every other case the
\* input is run as inline code.
C24_FileExactlyWhen ==
    (php.pc # "idle" /\ ArgumentsAccepted) =>
        /\ php.source = "file" <=> ReadAsFile
        /\ (php.in.type = "file" /\ php.env.file = "absent") =>
              /\ php.pc = "returned"
              /\ ~php.result.success
              /\ php.result.error = Some(<<"PHP file not found: ">> \o php.in.codeOrPath)
              /\ ssh = <<>>
        /\ (~ReadAsFile /\ php.pc \in {"await", "returned"} /\ Len(ssh) = 1) =>
              php.command =
                 CompositeCommand(getSshConfig(cachedConfig, php.in.domain).value["wpRootPath"],
                                  StripClosingTag(StripOpeningTag(php.in.codeOrPath)),
                                  EscapedArgs(php.in.args))

\* A relative path ending in .php that exists is read as a file although no
\* type was given.
C24_Witness ==
    /\ php.pc = "await"
    /\ php.in.type = "auto"
    /\ php.in.codeOrPath = RelativePath
    /\ php.env.file = "readable"
    /\ php.source = "file"
    /\ Len(ssh) = 1

-----------------------------------------------------------------------------
(* C25: the result of executePhpCode *)

\* C25: when the remote command has produced a result, data is present
\* exactly when the trimmed stdout is valid JSON, and is then the parsed
\* value, whether the exit code is zero or not; stdout, stderr and code are
\* those of the command result, stdout untrimmed.
C25_DataIsParsedStdout ==
    (php.pc = "returned" /\ Len(ssh) = 1 /\ ssh[1].promise.state = "resolved") =>
        /\ php.result.stdout = ssh[1].promise.result.stdout
        /\ php.result.stderr = ssh[1].promise.result.stderr
        /\ php.result.code = ssh[1].promise.result.code
        /\ php.result.data.def <=> JsonParse(Trim(ssh[1].promise.result.stdout)).def
        /\ php.result.data.def =>
              php.result.data = JsonParse(Trim(ssh[1].promise.result.stdout))

\* The remote command printed 1 and a line end and ended with exit code 1.
C25_Witness ==
    /\ php.pc = "returned"
    /\ Len(ssh) = 1
    /\ ssh[1].promise.state = "resolved"
    /\ ssh[1].promise.result.code = ExitCode(1)
    /\ php.result.stdout = <<"1", "\n">>
    /\ php.result.data = Some(JNum(1))

-----------------------------------------------------------------------------
(* C30: executeWpCommand *)

\* C30: executeWpCommand resolves the connection profile of the domain and
\* calls executeSshCommand exactly once, with "cd <wpRootPath> && wp
\* <command>"; the outcome is that of this one invocation; when the profile
\* cannot be resolved it fails with the resolver's error and starts no
\* session.
C30_WpDelegatesOnce ==
    call.op = "executeWpCommand" =>
        IF getSshConfig(cachedConfig, call.arg.domain).ok
        THEN /\ Len(ssh) = 1
             /\ ssh[1].caller = "wp"
             /\ ssh[1].domain = call.arg.domain
             /\ ssh[1].command =
                   <<"c", "d", " ">>
                      \o getSshConfig(cachedConfig, call.arg.domain).value["wpRootPath"]
                      \o <<" ", "&", "&", " ", "w", "p", " ">> \o call.arg.wpCommand
             /\ call.out.ok
        ELSE /\ ssh = <<>>
             /\ ~call.out.ok
             /\ call.out.error = getSshConfig(cachedConfig, call.arg.domain).error

\* The one invocation of executeWpCommand has ended with a result.
C30_Witness ==
    /\ call.op = "executeWpCommand"
    /\ Len(ssh) = 1
    /\ ssh[1].caller = "wp"
    /\ ssh[1].promise.state = "resolved"

-----------------------------------------------------------------------------
(* C26: the local interpreter *)

SyntaxErrorReported ==
    /\ php.pc = "returned"
    /\ php.result.error.def
    /\ php.result.error.v # <<>>
    /\ Head(php.result.error.v) = "PHP syntax error: "

\* C26: without a local interpreter the syntax check reports valid and runs
\* nothing; the interpreter is looked for at most once in a process and the
\* remembered answer never changes afterwards; an error that the interpreter
\* reports on line n of the file it was given is reported on line n - 1.
C26_ProbedOnceLineShifted ==
    /\ [](/\ phpAvailable = "no" => ~SyntaxErrorReported /\ php.temp = NoTemp
          /\ php.probes <= 1
          /\ php.env.lint = "errorLine" =>
                /\ SyntaxErrorReported
                /\ php.result.error.v =
                      <<"PHP syntax error: ">> \o LintMessage
                          \o <<" on line ", ToString(LintLine - 1)>>)
    /\ [][phpAvailable # "unknown" => phpAvailable' = phpAvailable]_vars

\* A later call, which did not look for the interpreter, had a syntax error
\* reported by it.
C26_Witness ==
    /\ phpAvailable = "yes"
    /\ php.probes = 1
    /\ ~php.env.installed
    /\ php.env.lint = "errorLine"
    /\ SyntaxErrorReported

-----------------------------------------------------------------------------
(* C27: invocations at the same time *)

\* C27: invocations of executeSshCommand that run at the same time do not
\* touch each other: what an invocation has collected, and the result it
\* resolves with, are the chunks and the exit code of its own remote command
\* and nothing of another's; it is rejected only after an error of its own
\* connection.
C27_InvocationsIsolated ==
    \A i \in 1..Len(ssh) :
        /\ ssh[i].stdout = Flatten(ssh[i].emittedOut)
        /\ ssh[i].stderr = Flatten(ssh[i].emittedErr)
        /\ ssh[i].promise.state = "resolved" =>
              /\ ssh[i].promise.result.stdout = Flatten(ssh[i].emittedOut)
              /\ ssh[i].promise.result.stderr = Flatten(ssh[i].emittedErr)
              /\ ssh[i].promise.result.code = ssh[i].closeCode
        /\ ssh[i].promise.state = "rejected" => ssh[i].errorFirst

\* Two invocations have both resolved, each with its own output and code.
C27_Witness ==
    /\ Len(ssh) = 2
    /\ ssh[1].promise.state = "resolved"
    /\ ssh[2].promise.state = "resolved"
    /\ ssh[1].promise.result.stdout = OwnChunk(1)
    /\ ssh[2].promise.result.stdout = OwnChunk(2)
    /\ ssh[1].promise.result.code = ExitCode(1)
    /\ ssh[2].promise.result.code = ExitCode(2)

-----------------------------------------------------------------------------
(* C21: shellQuote *)

Wrapped(arg) == <<"'">> \o ReplaceAll(arg, <<"'">>, <<"'", "\"", "'", "\"", "'">>) \o <<"'">>

\* C21: shellQuote gives '' for the empty string, the argument itself when
\* it is made of safe characters only, and the argument in single quotes
\* with each single quote replaced by '"'"' otherwise; a POSIX shell reads
\* the result as one word, which is the argument; and the words wp is given
\* in the composite command are the arguments.
C21_QuoteRoundTrip ==
    /\ call.op = "shellQuote" =>
          /\ ShellWords(call.out.value) = <<call.arg>>
          /\ call.out.value =
                (IF call.arg = <<>> THEN <<"'", "'">>
                 ELSE IF \A i \in 1..Len(call.arg) : call.arg[i] \in SafeChars THEN call.arg
                 ELSE Wrapped(call.arg))
    /\ (call.op = "remote" /\ Len(call.out.value.wp) = 1) =>
          call.out.value.wpArgs = call.arg.args

\* "it's a test" has been quoted.
C21_Witness ==
    /\ call.op = "shellQuote"
    /\ call.arg = ItsATest
    /\ call.out.value = <<"'", "i", "t", "'", "\"", "'", "\"", "'", "s", " ", "a", " ",
                          "t", "e", "s", "t", "'">>
    /\ ShellWords(call.out.value) = <<ItsATest>>

-----------------------------------------------------------------------------
(* C22, C29: the composite command *)

\* C22: when the composite command has run to its end, the remote temporary
\* file does not exist, whatever the exit status of wp was and also when the
\* change of directory or the write failed, and the exit status of the
\* command is that of the one wp eval-file run.
C22_FileRemovedStatusKept ==
    call.op = "remote" =>
        /\ ~call.out.value.file
        /\ Len(call.out.value.wp) = 1
        /\ call.out.value.exit = call.out.value.wp[1]

\* C29: the here-document writes the opening-tag line followed by the code
\* to the temporary file, and the remote shell runs no line of the code,
\* also when the code has a line equal to WPMCP_PHP_CODE.
C29_CodeOnlyWritten ==
    call.op = "remote" =>
        /\ (call.arg.env.cd /\ call.arg.env.write) =>
              call.out.value.content = <<"<?php", "\n">> \o call.arg.phpCode \o <<"\n">>
        /\ call.out.value.shell = <<>>

\* The code has no line that is the delimiter of the here-document.
NoDelimiterLine ==
    \A k \in 1..Len(SplitLines(call.arg.phpCode)) :
        SplitLines(call.arg.phpCode)[k] # HeredocMarker

\* For code without such a line both statements hold.
CompositeWithoutDelimiterLine ==
    (call.op = "remote" /\ NoDelimiterLine) =>
        /\ C22_FileRemovedStatusKept
        /\ C29_CodeOnlyWritten

-----------------------------------------------------------------------------
(* C28: main *)

ArgumentMissing == ~proc.argv.def \/ proc.argv.path = <<>>

\* C28: the process exits with a non-zero status when the configuration
\* path argument is missing or initializeConfig fails, and the server is
\* connected to its transport only after initializeConfig has succeeded.
C28_ExitsOrConnectsConfigured ==
    /\ (/\ proc.pc \notin {"none", "start"}
        /\ ArgumentMissing \/ ~initializeConfig(proc.argv.file, Null).out.ok) =>
          /\ proc.pc = "exited"
          /\ proc.status # 0
          /\ proc.connects = 0
    /\ proc.connects > 0 =>
          /\ ~ArgumentMissing
          /\ initializeConfig(proc.argv.file, Null).out.ok
          /\ cachedConfig = initializeConfig(proc.argv.file, Null).config
          /\ cachedConfig # Null
    /\ proc.pc = "exited" => proc.status # 0

\* The file named by the argument is not a configuration, and the process
\* has exited.
C28_Witness ==
    /\ proc.pc = "exited"
    /\ ~ArgumentMissing
    /\ proc.argv.file.st \in {"badjson", "json"}
    /\ ~initializeConfig(proc.argv.file, Null).out.ok
    /\ proc.status = 1
    /\ proc.connects = 0

====
